---- MODULE Spec2Model ----
(***************************************************************************)
(* Deployment orchestration engine of devpush: the deployment rows, the    *)
(* job queue, the container runtime, the alias rows and the published      *)
(* routing file, with one action per await-separated step of each handler. *)
(*                                                                         *)
(* A handler works on the session object it loaded (a snapshot of the row) *)
(* and a commit writes only the attributes the handler assigned, so a step *)
(* of one handler can land between the load and the commit of another.     *)
(***************************************************************************)
EXTENDS Integers, FiniteSets, Sequences, TLC

\* ----------------------------------------------------------------- bounds
\* Number of deployments of the one project (all on branch main, environment
\* prod) that the trigger path creates.
NumDeps == 3

DeploymentIds == <<"d1", "d2", "d3", "d4">>

Deps == {DeploymentIds[i] : i \in 1..NumDeps}

\* Number of those deployments the trigger path creates in the step-level
\* specifications below.
NumStarted == 1

\* Most alias upserts that fail within one setup_aliases call.
MaxUpsertFailures == 1

\* Largest observed_missing_count the reconciliation tick is run up to.
MaxMissing == 2

\* Number of deployments that have a container in the reconciliation
\* specification below.
NumObserved == 2

\* ------------------------------------------------------ program constants
Null == "null"

\* config.py: container_delete_grace_seconds
ContainerDeleteGraceSeconds == 15

\* config.py: deployment_timeout_seconds
DeploymentTimeoutSeconds == 300

\* The fields config.py declares on Settings that the engine reads.
SettingsFields == {"deployment_timeout_seconds", "container_delete_grace_seconds"}

\* reconcile.py: OBSERVED_STATUSES
OBSERVED_STATUSES == {"running", "exited", "dead", "paused", "not_found"}

\* Exit codes a container's main process ends with in this model.
ExitCodes == {0, 1, 137}

\* Project slug and the three subdomains get_alias_domains derives for a
\* deployment of branch main in environment prod.
ProjectSlug == "myapp"

\* The project, and another project of the same installation.
ProjectId == "project-1"

OtherProject == "project-2"

\* The environment every deployment of the project is made to.
EnvironmentId == "prod"

\* services/deployment.py get_alias_domains: subdomain per alias type.
get_alias_domains ==
    [branch |-> "myapp-branch-main",
     environment |-> ProjectSlug,
     environment_id |-> "myapp-env-id-prod"]

AliasTypes == {"branch", "environment", "environment_id"}

Subdomains == {get_alias_domains[t] : t \in AliasTypes}

NoError == [status |-> Null, message |-> Null]

\* A deployment row as DeploymentService.create leaves it (status prepare,
\* everything else unset); job_id is set by the route that enqueues the job.
NewDeployment(job) ==
    [project_id |-> ProjectId,
     status |-> "prepare", conclusion |-> Null, error |-> NoError,
     container_id |-> Null, container_status |-> Null, job_id |-> job,
     observed_status |-> Null, observed_exit_code |-> {},
     observed_missing_count |-> 0]

\* Container id the runtime gives the container created for deployment d.
ContainerOf(d) == "c-" \o d

NoContainer == [state |-> "absent", exit_code |-> 0, listening |-> FALSE]

\* ------------------------------------------------------------------ state
VARIABLES
    deployment,      \* deployment id -> row (NoRow until the deployment is created)
    alias,           \* subdomain -> Null-row or [deployment_id, previous_deployment_id]
    traefik,         \* published routing file: set of <<subdomain, deployment>> rules; {} = no file
    queue,           \* arq jobs waiting to run
    startJob,        \* deployment id -> [pc, container] of its start_deployment job
    abort,           \* deployment ids whose start job has an abort request pending
    failRun,         \* deployment id -> running fail_deployment job (or idle)
    finRun,          \* deployment id -> running finalize_deployment job (or idle)
    cancelReq,       \* deployment id -> running cancel() request (or idle)
    ctr,             \* deployment id -> runtime container [state, exit_code, listening]
    expired,         \* deployments older than the deployment timeout
    deployment_probe_state, \* monitor.py: deployment ids with a probe-state entry
    lastLog,         \* what the last step logged or emitted when it refused, skipped or rolled back (NoLog otherwise)
    domain,          \* active Domain rows of the project
    writer,          \* process -> its update_traefik_config call in progress (or idle)
    probe_active,    \* monitor.py: deployment ids whose probe-state entry has probe_active set
    checkRun,        \* deployment id -> call -> its _check_status coroutine in progress (or idle)
    emitted,         \* deployment id -> notifications the last reconciliation tick emitted for it
    stray,           \* runtime containers the engine holds no id of: [id, label, state]
    network          \* isolation network -> [exists, probe, containers, pc]

vars == <<deployment, alias, traefik, queue, startJob, abort, failRun, finRun,
          cancelReq, ctr, expired, deployment_probe_state, lastLog,
          domain, writer, probe_active, checkRun, emitted, stray, network>>

\* A deployment id with no row yet.
NoRow ==
    [project_id |-> Null,
     status |-> Null, conclusion |-> Null, error |-> NoError,
     container_id |-> Null, container_status |-> Null, job_id |-> Null,
     observed_status |-> Null, observed_exit_code |-> {},
     observed_missing_count |-> 0]

Rows == {d \in Deps : deployment[d] # NoRow}

\* The attributes of a loaded row that cancel() and fail_deployment read.
Loaded(row) ==
    [status |-> row.status, conclusion |-> row.conclusion, job_id |-> row.job_id,
     container_id |-> row.container_id, container_status |-> row.container_status]

NoAlias == [deployment_id |-> Null, previous_deployment_id |-> Null]

Idle == [pc |-> "idle"]

\* The processes that call update_traefik_config: the worker (finalize) and
\* the app (rollback, domain changes).
Writers == {"worker", "app"}

\* monitor.py WORKSPACE_NETWORK_PREFIX: the isolation networks of the
\* workspaces, and a network the runtime does not have.
Networks == {"devpush_workspace_1", "devpush_workspace_2"}

\* exists: the runtime has the network; probe: the monitor's own container
\* is attached; containers: the other containers attached; pc: where the
\* monitor's detach pass stands on this network.
NoNetwork == [exists |-> FALSE, probe |-> FALSE, containers |-> {}, pc |-> "idle"]

\* The _check_status coroutines of one deployment that can be in progress
\* at once in the monitor process: the one the current pass of the loop
\* awaits, and one of an earlier pass that the loop no longer awaits.
Checks == {"gathered", "detached"}

NoLog == [fn |-> Null, dep |-> Null, msg |-> Null]

Init ==
    /\ deployment = [d \in Deps |-> NoRow]
    /\ alias = [s \in Subdomains |-> NoAlias]
    /\ traefik = {}
    /\ queue = {}
    /\ startJob = [d \in Deps |-> [pc |-> "none", container |-> Null]]
    /\ abort = {}
    /\ failRun = [d \in Deps |-> Idle]
    /\ finRun = [d \in Deps |-> Idle]
    /\ cancelReq = [d \in Deps |-> Idle]
    /\ ctr = [d \in Deps |-> NoContainer]
    /\ expired = {}
    /\ deployment_probe_state = {}
    /\ lastLog = NoLog
    /\ domain = {}
    /\ writer = [w \in Writers |-> Idle]
    /\ probe_active = {}
    /\ checkRun = [d \in Deps |-> [k \in Checks |-> Idle]]
    /\ emitted = [d \in Deps |-> 0]
    /\ stray = {}
    /\ network = [n \in Networks |-> NoNetwork]

\* ---------------------------------------------------------------- helpers
\* DeploymentService.update_status: assigns the arguments that are not None
\* and commits; an argument left None (Null here) leaves the column alone.
update_status(row, status, conclusion, error, container_status) ==
    [row EXCEPT
        !.status = IF status # Null THEN status ELSE @,
        !.conclusion = IF conclusion # Null THEN conclusion ELSE @,
        !.error = IF error # NoError THEN error ELSE @,
        !.container_status = IF container_status # Null THEN container_status ELSE @]

\* queue.enqueue_job("fail_deployment", id, status, reason)
FailJob(d, stage, reason) ==
    [fn |-> "fail_deployment", dep |-> d, status |-> stage, reason |-> reason,
     defer |-> 0]

\* A delete job enqueued without the grace period (variant of DeleteJob).
DeleteJobNow(d) ==
    [fn |-> "delete_container", dep |-> d, status |-> Null, reason |-> Null,
     defer |-> 0]

\* queue.enqueue_job("delete_container", id, _defer_by=grace)
DeleteJob(d) ==
    [fn |-> "delete_container", dep |-> d, status |-> Null, reason |-> Null,
     defer |-> ContainerDeleteGraceSeconds]

FinalizeJob(d) ==
    [fn |-> "finalize_deployment", dep |-> d, status |-> Null, reason |-> Null,
     defer |-> 0]

CleanupJob ==
    [fn |-> "cleanup_inactive_containers", dep |-> Null, status |-> Null,
     reason |-> Null, defer |-> 0]

\* container.stop(): a running container's process is ended; a container that
\* is not running is left as it is.
Stopped(c) ==
    IF c.state = "running"
    THEN [state |-> "exited", exit_code |-> 137, listening |-> FALSE]
    ELSE c

\* "try: await container.stop() / except Exception: pass": the container
\* after the call, whether the stop went through or raised.
StopOutcomes(c) == {Stopped(c), c}

Log(fn, d, msg) == [fn |-> fn, dep |-> d, msg |-> msg]

\* ------------------------------------------------- trigger path (routers)
\* routers/project.py project_deploy: DeploymentService.create, enqueue
\* start_deployment, store the job id on the row.
Create(d) ==
    /\ d \notin Rows
    /\ \E i \in 1..NumStarted :
            /\ DeploymentIds[i] = d
            /\ \A j \in 1..(i - 1) : DeploymentIds[j] \in Rows
    /\ deployment' = [deployment EXCEPT ![d] = NewDeployment("job-" \o d)]
    /\ startJob' = [startJob EXCEPT ![d].pc = "queued"]
    /\ UNCHANGED <<domain, writer, probe_active, checkRun, alias, traefik,
                   queue, abort, failRun, finRun, cancelReq, ctr, expired,
                   deployment_probe_state, emitted, stray, network>>
    /\ lastLog' = NoLog

\* -------------------------------------------------------- start_deployment
\* The worker takes the job: a job with an abort request pending is dropped
\* before it starts; otherwise the job loads the row (lines 54-61).
StartPickup(d) ==
    /\ startJob[d].pc = "queued"
    /\ IF d \in abort
         THEN /\ startJob' = [startJob EXCEPT ![d].pc = "aborted"]
              /\ abort' = abort \ {d}
         ELSE /\ startJob' = [startJob EXCEPT ![d].pc = "loaded"]
              /\ abort' = abort
    /\ UNCHANGED <<domain, writer, probe_active, checkRun, deployment, alias,
                   traefik, queue, failRun, finRun, cancelReq, ctr, expired,
                   deployment_probe_state, emitted, stray, network>>
    /\ lastLog' = NoLog

\* lines 66-72: update_status(status="prepare"), whatever the row holds.
StartPrepare(d) ==
    /\ startJob[d].pc = "loaded"
    /\ deployment' = [deployment EXCEPT
            ![d] = update_status(@, "prepare", Null, NoError, Null)]
    /\ startJob' = [startJob EXCEPT ![d].pc = "prepared"]
    /\ UNCHANGED <<domain, writer, probe_active, checkRun, alias, traefik,
                   queue, abort, failRun, finRun, cancelReq, ctr, expired,
                   deployment_probe_state, emitted, stray, network>>
    /\ lastLog' = NoLog

\* lines 294-302: the reason a DockerError of create_or_replace is classified to.
CreationReasons == {"Runner image not found", "Port conflict", "Failed to create container"}

\* The fail job of a creation failure enqueued with the stage of the
\* top-level handler (variant of CreationFailure).
CreationFailureAsDeploy(d, r) == FailJob(d, "deploy", r)

\* lines 303-308: the fail job a DockerError of create_or_replace enqueues.
CreationFailure(d, r) == FailJob(d, "prepare", r)

\* lines 201-312: resolve the runner, pull the image, create the container.
\*   "ok"       the container is created (local variable container set);
\*   "docker"   create_or_replace raises DockerError: fail job with stage
\*              prepare and the classified reason, return;
\*   "raise"    any other exception (runner missing, pull failed): the
\*              handler of lines 362-370 enqueues a fail job with stage deploy.
StartCreate(d) ==
    /\ startJob[d].pc = "prepared"
    /\ \E outcome \in {"ok", "docker", "raise"} :
        CASE outcome = "ok" ->
                /\ ctr' = [ctr EXCEPT ![d] = [state |-> "created", exit_code |-> 0, listening |-> FALSE]]
                /\ startJob' = [startJob EXCEPT
                        ![d] = [pc |-> "created", container |-> ContainerOf(d)]]
                /\ queue' = queue
          [] outcome = "docker" ->
                /\ \E r \in CreationReasons :
                        queue' = queue \cup {CreationFailure(d, r)}
                /\ startJob' = [startJob EXCEPT ![d].pc = "done"]
                /\ ctr' = ctr
          [] OTHER ->
                /\ queue' = queue \cup
                        {FailJob(d, "deploy", "Deployment failed unexpectedly")}
                /\ startJob' = [startJob EXCEPT ![d].pc = "done"]
                /\ ctr' = ctr
    /\ UNCHANGED <<domain, writer, probe_active, checkRun, deployment, alias,
                   traefik, abort, failRun, finRun, cancelReq, expired,
                   deployment_probe_state, emitted, stray, network>>
    /\ lastLog' = NoLog

\* line 314: container.start(); an exception goes to the handler of lines
\* 362-370 (the container stays created, its id is never stored).
StartRun(d) ==
    /\ startJob[d].pc = "created"
    /\ \E ok \in BOOLEAN :
        IF ok
        THEN /\ ctr' = [ctr EXCEPT ![d].state = "running"]
             /\ startJob' = [startJob EXCEPT ![d].pc = "started"]
             /\ queue' = queue
        ELSE /\ queue' = queue \cup
                    {FailJob(d, "deploy", "Deployment failed unexpectedly")}
             /\ startJob' = [startJob EXCEPT ![d].pc = "done"]
             /\ ctr' = ctr
    /\ UNCHANGED <<domain, writer, probe_active, checkRun, deployment, alias,
                   traefik, abort, failRun, finRun, cancelReq, expired,
                   deployment_probe_state, emitted, stray, network>>
    /\ lastLog' = NoLog

\* lines 316-324: store the container id, update_status(status="deploy",
\* container_status="running"); the job returns.
StartSave(d) ==
    /\ startJob[d].pc = "started"
    /\ deployment' = [deployment EXCEPT
            ![d] = update_status([@ EXCEPT !.container_id = startJob[d].container],
                                 "deploy", Null, NoError, "running")]
    /\ startJob' = [startJob EXCEPT ![d].pc = "done"]
    /\ UNCHANGED <<domain, writer, probe_active, checkRun, alias, traefik,
                   queue, abort, failRun, finRun, cancelReq, ctr, expired,
                   deployment_probe_state, emitted, stray, network>>
    /\ lastLog' = NoLog

\* lines 329-360: asyncio.CancelledError reaches the running job at one of
\* its awaits after an abort request. With a container created: stop it,
\* enqueue delete_container after the grace period, reload the row and
\* update_status(completed, canceled, stopped). Without one: nothing.
StartCancelled(d) ==
    /\ d \in abort
    /\ startJob[d].pc \in {"loaded", "prepared", "created", "started"}
    /\ abort' = abort \ {d}
    /\ startJob' = [startJob EXCEPT ![d].pc = "aborted"]
    /\ IF startJob[d].container # Null
         THEN /\ \E c \in StopOutcomes(ctr[d]) : ctr' = [ctr EXCEPT ![d] = c]
              /\ queue' = queue \cup {DeleteJob(d)}
              /\ deployment' = [deployment EXCEPT
                      ![d] = update_status(@, "completed", "canceled", NoError, "stopped")]
         ELSE UNCHANGED <<domain, writer, probe_active, checkRun, ctr, queue,
                          deployment, emitted, stray, network>>
    /\ UNCHANGED <<domain, writer, probe_active, checkRun, alias, traefik,
                   failRun, finRun, cancelReq, expired,
                   deployment_probe_state, emitted, stray, network>>
    /\ lastLog' = NoLog

\* ------------------------------------------------- DeploymentService.cancel
\* routers/project.py project_cancel_deploy: the route loads the row (its
\* get_deployment_by_id dependency), validates the form, then calls cancel()
\* with that object.
CancelLoad(d) ==
    /\ d \in Rows
    /\ cancelReq[d].pc = "idle"
    /\ cancelReq' = [cancelReq EXCEPT ![d] = [pc |-> "loaded", snap |-> Loaded(deployment[d])]]
    /\ UNCHANGED <<domain, writer, probe_active, checkRun, deployment, alias,
                   traefik, queue, startJob, abort, failRun, finRun, ctr,
                   expired, deployment_probe_state, emitted, stray, network>>
    /\ lastLog' = NoLog

\* A refusal test that overlooks the stages finalize and fail (variant of
\* CancelRefused).
CancelRefusedCompletedOnly(row) ==
    \/ row.status = "completed"
    \/ row.conclusion # Null

\* lines 499-503: the condition under which cancel() raises.
CancelRefused(row) ==
    \/ row.status \in {"finalize", "fail", "completed"}
    \/ row.conclusion # Null

\* lines 499-511: raise on a deployment that is finalizing, failing or
\* concluded; otherwise update_status(completed, canceled).
CancelCheck(d) ==
    /\ cancelReq[d].pc = "loaded"
    /\ IF CancelRefused(cancelReq[d].snap)
         THEN /\ cancelReq' = [cancelReq EXCEPT ![d] = Idle]
              /\ lastLog' = Log("cancel", d, "Error canceling deployment")
              /\ deployment' = deployment
         ELSE /\ deployment' = [deployment EXCEPT
                      ![d] = update_status(@, "completed", "canceled", NoError, Null)]
              /\ cancelReq' = [cancelReq EXCEPT ![d].pc = "committed"]
              /\ lastLog' = NoLog
    /\ UNCHANGED <<domain, writer, probe_active, checkRun, alias, traefik,
                   queue, startJob, abort, failRun, finRun, ctr, expired,
                   deployment_probe_state, emitted, stray, network>>

\* lines 513-517: abort the start job unless it has already finished
\* (job_info.success is None while the job is queued or running).
CancelAbort(d) ==
    /\ cancelReq[d].pc = "committed"
    /\ abort' = IF /\ cancelReq[d].snap.job_id # Null
                   /\ startJob[d].pc \notin {"none", "done", "aborted"}
                THEN abort \cup {d} ELSE abort
    /\ cancelReq' = [cancelReq EXCEPT ![d].pc = "abort_sent"]
    /\ UNCHANGED <<domain, writer, probe_active, checkRun, deployment, alias,
                   traefik, queue, startJob, failRun, finRun, ctr, expired,
                   deployment_probe_state, emitted, stray, network>>
    /\ lastLog' = NoLog

\* Whether the handler's row names a container it has not seen stopped or
\* removed (cancel lines 520-523, fail_deployment lines 485-488).
HasLiveContainer(row) ==
    /\ row.container_id # Null
    /\ row.container_status \notin {"removed", "stopped"}

\* Outcomes of docker_client.containers.get(id): the container, a 404, or
\* any other error of the runtime endpoint.
GetOutcomes(d) ==
    IF ctr[d].state = "absent" THEN {"404", "error"} ELSE {"ok", "error"}

\* lines 519-565: stop the container and schedule its deletion.
\*   "ok"     stop (an error of stop is swallowed), enqueue delete_container
\*            deferred by the grace period, container_status = stopped;
\*   "404"    container_status = removed;
\*   "error"  logged, nothing changes.
CancelStop(d) ==
    /\ cancelReq[d].pc = "abort_sent"
    /\ cancelReq' = [cancelReq EXCEPT ![d] = Idle]
    /\ IF HasLiveContainer(cancelReq[d].snap)
         THEN \E outcome \in GetOutcomes(d) :
                CASE outcome = "ok" ->
                        /\ \E c \in StopOutcomes(ctr[d]) :
                                ctr' = [ctr EXCEPT ![d] = c]
                        /\ queue' = queue \cup {DeleteJob(d)}
                        /\ deployment' = [deployment EXCEPT
                                ![d] = update_status(@, Null, Null, NoError, "stopped")]
                  [] outcome = "404" ->
                        /\ deployment' = [deployment EXCEPT
                                ![d] = update_status(@, Null, Null, NoError, "removed")]
                        /\ UNCHANGED <<domain, writer, probe_active, checkRun,
                                       ctr, queue, emitted, stray, network>>
                  [] OTHER -> UNCHANGED <<domain, writer, probe_active,
                                          checkRun, ctr, queue, deployment,
                                          emitted, stray, network>>
         ELSE UNCHANGED <<domain, writer, probe_active, checkRun, ctr, queue,
                          deployment, emitted, stray, network>>
    /\ UNCHANGED <<domain, writer, probe_active, checkRun, alias, traefik,
                   startJob, abort, failRun, finRun, expired,
                   deployment_probe_state, emitted, stray, network>>
    /\ lastLog' = NoLog

\* ---------------------------------------------------------- fail_deployment
\* A skip test that only recognises a failed conclusion (variant of
\* FailConcluded).
FailConcludedOnlyFailed(row) == row.conclusion = "failed"

\* lines 465-476: the two tests under which fail_deployment returns at once.
FailConcluded(row) == row.conclusion = "canceled" \/ row.conclusion # Null

\* lines 456-476: the worker takes a fail job and loads the row; a row that
\* already has a conclusion ends the job at once.
FailLoad(d) ==
    /\ failRun[d].pc = "idle"
    /\ \E j \in queue :
        /\ j.fn = "fail_deployment" /\ j.dep = d
        /\ queue' = queue \ {j}
        /\ IF FailConcluded(deployment[d])
             THEN /\ failRun' = failRun
                  /\ lastLog' = Log("fail_deployment", d, "skipping fail handler")
             ELSE /\ failRun' = [failRun EXCEPT ![d] =
                          [pc |-> "loaded", status |-> j.status,
                           reason |-> j.reason, snap |-> Loaded(deployment[d])]]
                  /\ lastLog' = NoLog
    /\ UNCHANGED <<domain, writer, probe_active, checkRun, deployment, alias,
                   traefik, startJob, abort, finRun, cancelReq, ctr, expired,
                   deployment_probe_state, emitted, stray, network>>

\* lines 478-483: update_status(status="fail").
FailMark(d) ==
    /\ failRun[d].pc = "loaded"
    /\ deployment' = [deployment EXCEPT
            ![d] = update_status(@, "fail", Null, NoError, Null)]
    /\ failRun' = [failRun EXCEPT ![d].pc = "marked"]
    /\ UNCHANGED <<domain, writer, probe_active, checkRun, alias, traefik,
                   queue, startJob, abort, finRun, cancelReq, ctr, expired,
                   deployment_probe_state, emitted, stray, network>>
    /\ lastLog' = NoLog

\* line 541: the error stored on the row.
FailError(stage, reason) ==
    [status |-> stage,
     message |-> IF reason # Null THEN reason ELSE "Deployment failed"]

\* lines 485-543: stop the container the loaded row names (as cancel does),
\* then update_status(completed, failed, error).
FailFinish(d) ==
    /\ failRun[d].pc = "marked"
    /\ failRun' = [failRun EXCEPT ![d] = Idle]
    /\ \E outcome \in (IF HasLiveContainer(failRun[d].snap)
                         THEN GetOutcomes(d) ELSE {"none"}) :
        LET cs == CASE outcome = "ok" -> "stopped"
                    [] outcome = "404" -> "removed"
                    [] OTHER -> Null
        IN  /\ \E c \in (IF outcome = "ok" THEN StopOutcomes(ctr[d]) ELSE {ctr[d]}) :
                    ctr' = [ctr EXCEPT ![d] = c]
            /\ queue' = IF outcome = "ok" THEN queue \cup {DeleteJob(d)} ELSE queue
            /\ deployment' = [deployment EXCEPT
                    ![d] = update_status(@, "completed", "failed",
                               FailError(failRun[d].status, failRun[d].reason), cs)]
    /\ UNCHANGED <<domain, writer, probe_active, checkRun, alias, traefik,
                   startJob, abort, finRun, cancelReq, expired,
                   deployment_probe_state, emitted, stray, network>>
    /\ lastLog' = NoLog

\* --------------------------------------------------------- delete_container
\* lines 547-579: a row without container id ends the job; otherwise stop
\* and force-delete the container and record container_status = removed
\* (also on a 404); any other error is logged.
DeleteContainer(d) ==
    /\ DeleteJob(d) \in queue
    /\ queue' = queue \ {DeleteJob(d)}
    /\ IF deployment[d].container_id = Null
         THEN /\ lastLog' = Log("delete_container", d, "Deployment or container not found")
              /\ UNCHANGED <<domain, writer, probe_active, checkRun, ctr,
                             deployment, emitted, stray, network>>
         ELSE /\ lastLog' = NoLog
              /\ \E outcome \in GetOutcomes(d) :
                    IF outcome = "error"
                    THEN UNCHANGED <<domain, writer, probe_active, checkRun,
                                     ctr, deployment, emitted, stray, network>>
                    ELSE /\ ctr' = [ctr EXCEPT ![d] = NoContainer]
                         /\ deployment' = [deployment EXCEPT
                                 ![d].container_status = "removed"]
    /\ UNCHANGED <<domain, writer, probe_active, checkRun, alias, traefik,
                   startJob, abort, failRun, finRun, cancelReq, expired,
                   deployment_probe_state, emitted, stray, network>>

\* ------------------------------------------------------------- environment
\* The container's process ends by itself.
ContainerExits(d) ==
    /\ ctr[d].state = "running"
    /\ \E code \in ExitCodes :
        ctr' = [ctr EXCEPT ![d] = [state |-> "exited", exit_code |-> code,
                                   listening |-> FALSE]]
    /\ UNCHANGED <<domain, writer, probe_active, checkRun, deployment, alias,
                   traefik, queue, startJob, abort, failRun, finRun,
                   cancelReq, expired, deployment_probe_state, emitted, stray,
                   network>>
    /\ lastLog' = NoLog

\* The application starts answering HTTP on port 8000.
AppListens(d) ==
    /\ ctr[d].state = "running"
    /\ ~ctr[d].listening
    /\ ctr' = [ctr EXCEPT ![d].listening = TRUE]
    /\ UNCHANGED <<domain, writer, probe_active, checkRun, deployment, alias,
                   traefik, queue, startJob, abort, failRun, finRun,
                   cancelReq, expired, deployment_probe_state, emitted, stray,
                   network>>
    /\ lastLog' = NoLog

\* Wall-clock time since the creation of a deployment that waits for
\* readiness passes deployment_timeout_seconds.
TimePasses(d) ==
    /\ d \in Rows
    /\ deployment[d].status = "deploy"
    /\ d \notin expired
    /\ expired' = expired \cup {d}
    /\ UNCHANGED <<domain, writer, probe_active, checkRun, deployment, alias,
                   traefik, queue, startJob, abort, failRun, finRun,
                   cancelReq, ctr, deployment_probe_state, emitted, stray,
                   network>>
    /\ lastLog' = NoLog

\* ------------------------------------------------------------------ monitor
\* monitor.py lines 192-209: the timeout check reads settings.deployment_timeout;
\* reading a field Settings does not declare raises, and the except clause
\* of lines 208-209 logs it and goes on to the probe.
TimedOut(d) ==
    IF "deployment_timeout" \in SettingsFields THEN d \in expired ELSE FALSE

\* monitor.py _check_status: what one check of deployment d enqueues. The
\* monitor calls fail_deployment with (id, reason): the reason lands in the
\* job's status argument and its reason argument stays None.
CheckEnqueues(d) ==
    IF TimedOut(d)
    THEN {FailJob(d, "Deployment timeout", Null)}
    ELSE IF ctr[d].state = "absent"
    THEN {FailJob(d, IF d \in deployment_probe_state
                     THEN "Docker error 404" ELSE "Container not found", Null)}
    ELSE IF ctr[d].state = "exited"
    THEN {FailJob(d, "Container exited with code " \o ToString(ctr[d].exit_code), Null)}
    ELSE IF ctr[d].state = "running" /\ ctr[d].listening
    THEN {FinalizeJob(d)}
    ELSE {}

\* monitor.py _check_status: whether deployment_probe_state holds an entry
\* for d after the check (the entry is dropped by _cleanup_deployment when a
\* job is enqueued, and never made when the container is not found).
CheckKeepsEntry(d) == CheckEnqueues(d) = {}

\* monitor.py line 312: the rows that satisfy the container_status clause of
\* the loop's query.
running_deployments ==
    {d \in Rows : deployment[d].container_status = "running"}

\* monitor.py lines 309-315: the deployments one pass of the loop selects.
deployments_to_check ==
    {d \in running_deployments : deployment[d].status = "in_progress"}

\* One pass over a set of deployments: _check_status for each (lines 317-327).
MonitorPass(sel) ==
    /\ queue' = queue \cup UNION {CheckEnqueues(d) : d \in sel}
    /\ deployment_probe_state' =
            (deployment_probe_state \ sel) \cup {d \in sel : CheckKeepsEntry(d)}
    /\ UNCHANGED <<domain, writer, probe_active, checkRun, deployment, alias,
                   traefik, startJob, abort, failRun, finRun, cancelReq, ctr,
                   expired, emitted, stray, network>>
    /\ lastLog' = NoLog

\* monitor.py monitor: one pass of the loop.
MonitorTick == MonitorPass(deployments_to_check)

\* ----------------------------------------------------------- reconciliation
\* reconcile.py lines 46-57: the candidates of a periodic tick.
ReconcileCandidates ==
    {d \in Rows : \/ deployment[d].container_status \in {"running", "stopped"}
                  \/ deployment[d].observed_status = "running"}

\* lines 66-68: the containers the list call returns: those the engine
\* created, labelled with their deployment, and the stray ones.
Listed ==
    {[id |-> ContainerOf(d), label |-> d, state |-> ctr[d].state,
      exit_code |-> ctr[d].exit_code] : d \in {x \in Deps : ctr[x].state # "absent"}}
        \cup stray

\* lines 73-96: the indexes built from the one list call (of two containers
\* with one label the index keeps the one listed last; the specifications
\* below resolve by label only where one container carries the label).
container_by_id == {c.id : c \in Listed}

container_by_deployment ==
    [d \in {c.label : c \in Listed} |-> (CHOOSE c \in Listed : c.label = d).id]

\* A resolution that falls back on any listed container when the stored id
\* is not listed (variant of ResolveContainer).
ResolveAnyListed(d) ==
    IF deployment[d].container_id # Null /\ deployment[d].container_id \in container_by_id
    THEN deployment[d].container_id
    ELSE IF Listed # {}
    THEN (CHOOSE c \in Listed : TRUE).id
    ELSE Null

\* lines 100-104: the container a deployment resolves to (Null: none).
ResolveContainer(d) ==
    IF deployment[d].container_id # Null /\ deployment[d].container_id \in container_by_id
    THEN deployment[d].container_id
    ELSE IF d \in DOMAIN container_by_deployment
    THEN container_by_deployment[d]
    ELSE Null

\* lines 128-130 and 169: what the inspection of the resolved container shows.
Inspected(d) == CHOOSE c \in Listed : c.id = ResolveContainer(d)

\* lines 169-177: the runtime's status, normalised to OBSERVED_STATUSES.
Classify(state) == IF state \in OBSERVED_STATUSES THEN state ELSE "not_found"

\* The row of a candidate after a tick that also marks the container as
\* removed when it counts it as missing (variant of Reconciled).
ReconciledMarksRemoved(d, inspected) ==
    IF ResolveContainer(d) = Null \/ ~inspected
    THEN [deployment[d] EXCEPT
            !.observed_status = "not_found",
            !.observed_missing_count = @ + 1,
            !.container_status = "removed"]
    ELSE [deployment[d] EXCEPT
            !.observed_status = Classify(Inspected(d).state),
            !.observed_exit_code = {Inspected(d).exit_code},
            !.observed_missing_count = 0]

\* The row of a candidate after a tick that keeps the missing count when the
\* container is observed (variant of Reconciled).
ReconciledKeepsCount(d, inspected) ==
    IF ResolveContainer(d) = Null \/ ~inspected
    THEN [deployment[d] EXCEPT
            !.observed_status = "not_found",
            !.observed_missing_count = @ + 1]
    ELSE [deployment[d] EXCEPT
            !.observed_status = Classify(Inspected(d).state),
            !.observed_exit_code = {Inspected(d).exit_code}]

\* lines 98-196: the row of a candidate after the tick. No container
\* resolves (110-126), or containers.get / show raises DockerError, 404 or
\* other (128-167): not_found and one more missing tick. Otherwise (169-184)
\* the inspected state is recorded and the count is reset.
Reconciled(d, inspected) ==
    IF ResolveContainer(d) = Null \/ ~inspected
    THEN [deployment[d] EXCEPT
            !.observed_status = "not_found",
            !.observed_missing_count = @ + 1]
    ELSE [deployment[d] EXCEPT
            !.observed_status = Classify(Inspected(d).state),
            !.observed_exit_code = {Inspected(d).exit_code},
            !.observed_missing_count = 0]

\* The test of a change that compares the observed status alone (variant of
\* ObservedChanged).
ObservedStatusChanged(before, after) ==
    before.observed_status # after.observed_status

\* lines 106-108 and 120-124, 144-148, 161-165, 191-195: whether a row's
\* observed fields differ from their values before the tick.
ObservedChanged(before, after) ==
    \/ before.observed_status # after.observed_status
    \/ before.observed_exit_code # after.observed_exit_code
    \/ before.observed_missing_count # after.observed_missing_count

\* workers/tasks/reconcile.py reconcile_deployments_tick. The list call may
\* raise (reconcile.py lines 65-71): the tick then returns without a write.
\* uninspected is the set of resolved containers whose inspection raises.
\* After the commit one deployment_observed_update is emitted for each row
\* in changed_deployments (lines 198-205).
ReconcileTick ==
    /\ ReconcileCandidates # {}
    /\ \E listed \in BOOLEAN :
        IF ~listed
        THEN /\ deployment' = deployment
             /\ emitted' = [d \in Deps |-> 0]
             /\ lastLog' = Log("reconcile", Null, "Failed to list devpush containers")
        ELSE \E uninspected \in SUBSET {d \in ReconcileCandidates : ResolveContainer(d) # Null} :
             /\ \A d \in ReconcileCandidates :
                    (ResolveContainer(d) = Null \/ d \in uninspected) =>
                        deployment[d].observed_missing_count < MaxMissing
             /\ deployment' = [d \in Deps |->
                    IF d \in ReconcileCandidates
                    THEN Reconciled(d, d \notin uninspected)
                    ELSE deployment[d]]
             /\ emitted' = [d \in Deps |->
                    IF /\ d \in ReconcileCandidates
                       /\ ObservedChanged(deployment[d], deployment'[d])
                    THEN 1 ELSE 0]
             /\ lastLog' = NoLog
    /\ UNCHANGED <<domain, writer, probe_active, checkRun, alias, traefik,
                   queue, startJob, abort, failRun, finRun, cancelReq, ctr,
                   expired, deployment_probe_state, stray, network>>

\* ------------------------------------------------ alias and routing manager
\* Alias.update_or_create (models.py): upsert by subdomain; a row that
\* exists keeps the deployment it pointed at as previous_deployment_id.
update_or_create(row, d) ==
    IF row = NoAlias
    THEN [deployment_id |-> d, previous_deployment_id |-> Null]
    ELSE [deployment_id |-> d, previous_deployment_id |-> row.deployment_id]

\* The three upserts in one try: the first that raises ends the setup, in
\* the order branch, environment, environment_id (variant of setup_aliases).
setup_aliases_one_try(d, failed) ==
    LET order == [branch |-> 1, environment |-> 2, environment_id |-> 3]
    IN  [s \in Subdomains |->
            IF \E t \in AliasTypes :
                    /\ get_alias_domains[t] = s
                    /\ \A f \in failed : order[t] < order[f]
            THEN update_or_create(alias[s], d)
            ELSE alias[s]]

\* setup_aliases lines 205-249: the three upserts, each in its own try;
\* failed is the set of alias types whose upsert raised.
setup_aliases(d, failed) ==
    [s \in Subdomains |->
        IF \E t \in AliasTypes \ failed : get_alias_domains[t] = s
        THEN update_or_create(alias[s], d)
        ELSE alias[s]]

\* The alias query without the project filter (variant of RoutedAliases).
RoutedAliasesOfAnyProject(a, include) ==
    {s \in DOMAIN a :
        /\ a[s].deployment_id # Null
        /\ \/ deployment[a[s].deployment_id].conclusion = "succeeded"
           \/ a[s].deployment_id \in include}

\* update_traefik_config lines 262-280: the aliases the query returns, given
\* the rows and aliases a (the session sees its own uncommitted state):
\* joined to a deployment of the project that has succeeded or is included.
RoutedAliases(a, include) ==
    {s \in DOMAIN a :
        /\ a[s].deployment_id # Null
        /\ deployment[a[s].deployment_id].project_id = ProjectId
        /\ \/ deployment[a[s].deployment_id].conclusion = "succeeded"
           \/ a[s].deployment_id \in include}

\* Alias.type and Alias.value as setup_aliases stores them (lines 213-249):
\* the type the subdomain was derived for, and the branch or environment id.
alias_type(s) ==
    IF s \in Subdomains
    THEN CHOOSE t \in AliasTypes : get_alias_domains[t] = s
    ELSE "environment_id"

alias_value(s) == IF alias_type(s) = "branch" THEN "main" ELSE EnvironmentId

\* lines 314-321: the environment-id aliases among the returned ones that
\* match a domain's environment (the code takes the first).
env_alias(aliases, dom) ==
    {s \in aliases : alias_type(s) = "environment_id"
                      /\ alias_value(s) = dom.environment_id}

\* lines 300-310: one router per returned alias, host -> deployment service.
alias_routers(a, aliases) == {<<s, a[s].deployment_id>> : s \in aliases}

\* lines 313-361: one router per active domain whose environment has a
\* returned environment-id alias: a route to that alias's deployment, or a
\* redirect to that alias's subdomain.
domain_routers(a, aliases, domains) ==
    {<<dom.hostname,
       LET e == CHOOSE s \in env_alias(aliases, dom) : TRUE
       IN  IF dom.type = "route"
           THEN a[e].deployment_id
           ELSE "redirect:" \o e>> :
        dom \in {x \in domains : /\ env_alias(aliases, x) # {}
                                  /\ x.type \in {"route", "301", "302", "307", "308"}}}

\* lines 295-361: the routers of the generated configuration.
routers(a, aliases, domains) ==
    alias_routers(a, aliases) \cup domain_routers(a, aliases, domains)

\* The test of line 291 alone (variant of NothingToRoute).
NothingToRouteNoRows(aliases, domains, rs, exists) ==
    aliases = {} /\ domains = {} /\ exists

\* The first test reduced to the existence of the file (variant of
\* NothingToRoute).
NothingToRouteWhenFileExists(aliases, domains, rs, exists) ==
    exists \/ rs = {}

\* lines 290-293 and 363-367: the two tests under which the call removes the
\* file, if there is one, and returns: no alias, no domain and a file at
\* the path, or no router built from the aliases and domains.
NothingToRoute(aliases, domains, rs, exists) ==
    (aliases = {} /\ domains = {} /\ exists) \/ rs = {}

\* update_traefik_config lines 251-390 as one whole call whose write
\* succeeds: the file it leaves (no file when there is nothing to route).
update_traefik_config(a, include) ==
    LET aliases == RoutedAliases(a, include)
        rs == routers(a, aliases, domain)
    IN  IF NothingToRoute(aliases, domain, rs, traefik # {}) THEN {} ELSE rs

\* -------------------------------------------------------- finalize_deployment
\* lines 386-401: the worker takes a finalize job and loads the row; only a
\* canceled conclusion ends the job.
FinalizeSkips(row) == row.conclusion = "canceled"

FinalizeLoad(d) ==
    /\ finRun[d].pc = "idle"
    /\ FinalizeJob(d) \in queue
    /\ queue' = queue \ {FinalizeJob(d)}
    /\ IF FinalizeSkips(deployment[d])
         THEN /\ finRun' = finRun
              /\ lastLog' = Log("finalize_deployment", d, "skipping finalize")
         ELSE /\ finRun' = [finRun EXCEPT ![d] = [pc |-> "loaded"]]
              /\ lastLog' = NoLog
    /\ UNCHANGED <<domain, writer, probe_active, checkRun, deployment, alias,
                   traefik, startJob, abort, failRun, cancelReq, ctr, expired,
                   deployment_probe_state, emitted, stray, network>>

\* lines 403-404 and 435-443: setup_aliases, then db.commit(); when the
\* commit raises, the handler enqueues a fail job with stage finalize.
FinalizeAliases(d) ==
    /\ finRun[d].pc = "loaded"
    /\ \E failed \in {f \in SUBSET AliasTypes : Cardinality(f) <= MaxUpsertFailures},
          committed \in BOOLEAN :
        IF committed
        THEN /\ alias' = setup_aliases(d, failed)
             /\ finRun' = [finRun EXCEPT ![d].pc = "aliased"]
             /\ queue' = queue
        ELSE /\ failed = {}
             /\ alias' = alias
             /\ finRun' = [finRun EXCEPT ![d] = Idle]
             /\ queue' = queue \cup
                    {FailJob(d, "finalize", "Failed to finalize deployment (aliases/routing)")}
    /\ UNCHANGED <<domain, writer, probe_active, checkRun, deployment,
                   traefik, startJob, abort, failRun, cancelReq, ctr, expired,
                   deployment_probe_state, emitted, stray, network>>
    /\ lastLog' = NoLog

\* lines 406-415: update_traefik_config with this deployment included; an
\* exception is logged and finalization goes on.
FinalizeRouting(d) ==
    /\ finRun[d].pc = "aliased"
    /\ \E written \in BOOLEAN :
        traefik' = IF written THEN update_traefik_config(alias, {d}) ELSE traefik
    /\ finRun' = [finRun EXCEPT ![d].pc = "routed"]
    /\ UNCHANGED <<domain, writer, probe_active, checkRun, deployment, alias,
                   queue, startJob, abort, failRun, cancelReq, ctr, expired,
                   deployment_probe_state, emitted, stray, network>>
    /\ lastLog' = NoLog

\* lines 417-433: update_status(completed, succeeded, error=None), then
\* enqueue cleanup_inactive_containers for the project.
FinalizeConclude(d) ==
    /\ finRun[d].pc = "routed"
    /\ deployment' = [deployment EXCEPT
            ![d] = update_status(@, "completed", "succeeded", NoError, Null)]
    /\ queue' = queue \cup {CleanupJob}
    /\ finRun' = [finRun EXCEPT ![d] = Idle]
    /\ UNCHANGED <<domain, writer, probe_active, checkRun, alias, traefik,
                   startJob, abort, failRun, cancelReq, ctr, expired,
                   deployment_probe_state, emitted, stray, network>>
    /\ lastLog' = NoLog

\* ------------------------------------------------ cleanup_inactive_containers
\* The deployment ids the aliases currently point at, without the previous
\* ones (variant of active_deployment_ids).
current_deployment_ids ==
    {alias[s].deployment_id : s \in Subdomains} \ {Null}

\* lines 613-630: deployment ids an alias references, current or previous.
active_deployment_ids ==
    ({alias[s].deployment_id : s \in Subdomains}
        \cup {alias[s].previous_deployment_id : s \in Subdomains}) \ {Null}

\* lines 636-648: completed deployments with a running container that no
\* alias references.
inactive_deployments ==
    {d \in Rows : /\ deployment[d].container_id # Null
                  /\ deployment[d].container_status = "running"
                  /\ deployment[d].status = "completed"
                  /\ d \notin active_deployment_ids}

\* lines 653-711: stop and remove each inactive container; a 404 sets
\* container_status to None, any other error is logged; the session is
\* committed only when some container was stopped.
CleanupInactiveContainers ==
    /\ CleanupJob \in queue
    /\ queue' = queue \ {CleanupJob}
    /\ \E outcome \in [inactive_deployments -> {"ok", "404", "error"}] :
        /\ \A d \in inactive_deployments : outcome[d] \in GetOutcomes(d)
        /\ LET commit == \E d \in inactive_deployments : outcome[d] = "ok"
           IN  /\ ctr' = [d \in Deps |->
                        IF d \in inactive_deployments /\ outcome[d] = "ok"
                        THEN NoContainer ELSE ctr[d]]
               /\ deployment' = [d \in Deps |->
                        IF d \in inactive_deployments /\ commit
                        THEN CASE outcome[d] = "ok" ->
                                    [deployment[d] EXCEPT !.container_status = "removed"]
                               [] outcome[d] = "404" ->
                                    [deployment[d] EXCEPT !.container_status = Null]
                               [] OTHER -> deployment[d]
                        ELSE deployment[d]]
    /\ UNCHANGED <<domain, writer, probe_active, checkRun, alias, traefik,
                   startJob, abort, failRun, finRun, cancelReq, expired,
                   deployment_probe_state, emitted, stray, network>>
    /\ lastLog' = NoLog

\* ------------------------------------------------ DeploymentService.rollback
\* A refusal test that only looks for the alias row (variant of
\* RollbackRefused).
RollbackRefusedNoAliasOnly(a) == a = NoAlias

\* lines 588-589: the condition under which rollback() raises.
RollbackRefused(a) == a = NoAlias \/ a.previous_deployment_id = Null

\* An assignment that overwrites deployment_id and keeps
\* previous_deployment_id (variant of swap_alias).
swap_keeps_previous(a) ==
    [deployment_id |-> a.previous_deployment_id,
     previous_deployment_id |-> a.previous_deployment_id]

\* lines 591-594: the tuple assignment that swaps the two fields.
swap_alias(a) ==
    [deployment_id |-> a.previous_deployment_id,
     previous_deployment_id |-> a.deployment_id]

\* lines 578-610 and project_rollback, environment prod: the alias of the
\* project slug; without a previous deployment it raises; otherwise swap,
\* commit, regenerate the routing file and emit deployment_rollback on the
\* project's stream (an error of the write leaves the swap committed and
\* emits nothing; the route logs it).
Rollback ==
    LET a == alias[ProjectSlug]
    IN  IF RollbackRefused(a)
        THEN /\ lastLog' = Log("rollback", Null, "No previous deployment to roll back to.")
             /\ UNCHANGED <<domain, writer, probe_active, checkRun,
                            deployment, alias, traefik, queue, startJob,
                            abort, failRun, finRun, cancelReq, ctr, expired,
                            deployment_probe_state, emitted, stray, network>>
        ELSE /\ alias' = [alias EXCEPT ![ProjectSlug] = swap_alias(a)]
             /\ \E written \in BOOLEAN :
                    IF written
                    THEN /\ traefik' = update_traefik_config(alias', {})
                         /\ lastLog' = Log("rollback", alias'[ProjectSlug].deployment_id,
                                           "deployment_rollback")
                    ELSE /\ traefik' = traefik
                         /\ lastLog' = Log("rollback", Null, "Error rolling back project")
             /\ UNCHANGED <<domain, writer, probe_active, checkRun,
                            deployment, queue, startJob, abort, failRun,
                            finRun, cancelReq, ctr, expired,
                            deployment_probe_state, emitted, stray, network>>

\* ------------------------------------------------- _check_status on a row
\* _check_status applied to one deployment whose container_status is running,
\* whatever its status: the handler itself does not look at the status.
CheckStatus(d) ==
    /\ d \in running_deployments
    /\ MonitorPass({d})

\* ------------------------------------------------------------ specification
\* The steps of the trigger path, the job handlers, cancel() and the runtime.
Lifecycle ==
    \/ \E d \in Deps : Create(d)
    \/ \E d \in Deps : StartPickup(d)
    \/ \E d \in Deps : StartPrepare(d)
    \/ \E d \in Deps : StartCreate(d)
    \/ \E d \in Deps : StartRun(d)
    \/ \E d \in Deps : StartSave(d)
    \/ \E d \in Deps : StartCancelled(d)
    \/ \E d \in Deps : CancelLoad(d)
    \/ \E d \in Deps : CancelCheck(d)
    \/ \E d \in Deps : CancelAbort(d)
    \/ \E d \in Deps : CancelStop(d)
    \/ \E d \in Deps : FailLoad(d)
    \/ \E d \in Deps : FailMark(d)
    \/ \E d \in Deps : FailFinish(d)
    \/ \E d \in Deps : DeleteContainer(d)
    \/ \E d \in Deps : ContainerExits(d)
    \/ \E d \in Deps : AppListens(d)
    \/ \E d \in Deps : TimePasses(d)

\* The engine as the code runs it: the monitor loop selects with the query
\* of monitor.py, and the reconciliation tick runs on its own schedule.
Next ==
    \/ Lifecycle
    \/ MonitorTick
    \/ ReconcileTick

Spec == Init /\ [][Next]_vars

\* The worker's job steps: arq runs every job it holds, and the monitor loop
\* never stops polling.
WorkerStep(d) ==
    \/ StartPickup(d) \/ StartPrepare(d) \/ StartCreate(d) \/ StartRun(d)
    \/ StartSave(d) \/ StartCancelled(d)
    \/ FailLoad(d) \/ FailMark(d) \/ FailFinish(d)
    \/ DeleteContainer(d)

\* The engine as the code runs it, with the worker and the monitor loop
\* scheduled fairly.
FairSpec ==
    /\ Spec
    /\ WF_vars(MonitorTick)
    /\ \A d \in Deps : WF_vars(WorkerStep(d))

\* The engine without cancel requests and with _check_status applied to the
\* deployments whose container_status is running, which is what puts
\* finalize jobs and the monitor's fail jobs on the queue.
NextDriven ==
    \/ \E d \in Deps : Create(d)
    \/ \E d \in Deps : StartPickup(d)
    \/ \E d \in Deps : StartPrepare(d)
    \/ \E d \in Deps : StartCreate(d)
    \/ \E d \in Deps : StartRun(d)
    \/ \E d \in Deps : StartSave(d)
    \/ \E d \in Deps : FailLoad(d)
    \/ \E d \in Deps : FailMark(d)
    \/ \E d \in Deps : FailFinish(d)
    \/ \E d \in Deps : DeleteContainer(d)
    \/ \E d \in Deps : ContainerExits(d)
    \/ \E d \in Deps : AppListens(d)
    \/ \E d \in Deps : TimePasses(d)
    \/ \E d \in Deps : CheckStatus(d)
    \/ \E d \in Deps : FinalizeLoad(d)
    \/ \E d \in Deps : FinalizeAliases(d)
    \/ \E d \in Deps : FinalizeRouting(d)
    \/ \E d \in Deps : FinalizeConclude(d)
    \/ CleanupInactiveContainers
    \/ Rollback

DrivenSpec == Init /\ [][NextDriven]_vars

\* ------------------------------------------------- routing of a project
\* The row start_deployment leaves when it ran to its end (lines 316-324).
Deployed(d) ==
    update_status([NewDeployment("job-" \o d) EXCEPT !.container_id = ContainerOf(d)],
                  "deploy", Null, NoError, "running")

\* Every deployment of the project has been started, its container answers
\* and _check_status has enqueued its finalize job (monitor.py line 255).
RoutingInit ==
    /\ deployment = [d \in Deps |-> Deployed(d)]
    /\ alias = [s \in Subdomains |-> NoAlias]
    /\ traefik = {}
    /\ queue = {FinalizeJob(d) : d \in Deps}
    /\ startJob = [d \in Deps |-> [pc |-> "done", container |-> ContainerOf(d)]]
    /\ abort = {}
    /\ failRun = [d \in Deps |-> Idle]
    /\ finRun = [d \in Deps |-> Idle]
    /\ cancelReq = [d \in Deps |-> Idle]
    /\ ctr = [d \in Deps |-> [state |-> "running", exit_code |-> 0, listening |-> TRUE]]
    /\ expired = {}
    /\ deployment_probe_state = {}
    /\ lastLog = NoLog
    /\ domain = {}
    /\ writer = [w \in Writers |-> Idle]
    /\ probe_active = {}
    /\ checkRun = [d \in Deps |-> [k \in Checks |-> Idle]]
    /\ emitted = [d \in Deps |-> 0]
    /\ stray = {}
    /\ network = [n \in Networks |-> NoNetwork]

\* Finalization of the started deployments (the worker runs the jobs
\* concurrently), rollback requests and the cleanup job.
RoutingNext ==
    \/ \E d \in Deps : FinalizeLoad(d)
    \/ \E d \in Deps : FinalizeAliases(d)
    \/ \E d \in Deps : FinalizeRouting(d)
    \/ \E d \in Deps : FinalizeConclude(d)
    \/ CleanupInactiveContainers
    \/ Rollback

RoutingSpec == RoutingInit /\ [][RoutingNext]_vars

\* ------------------------------------------------- reconciliation on its own
\* The runtime no longer lists the container of d (removed outside the
\* engine): containers.list, reconcile.py lines 65-68, does not return it.
ContainerVanishes(d) ==
    /\ ctr[d].state # "absent"
    /\ ctr' = [ctr EXCEPT ![d] = NoContainer]
    /\ UNCHANGED <<domain, writer, probe_active, checkRun, deployment, alias,
                   traefik, queue, startJob, abort, failRun, finRun,
                   cancelReq, expired, deployment_probe_state, emitted, stray,
                   network>>
    /\ lastLog' = NoLog

\* The runtime lists a running container labelled devpush.deployment_id = d
\* again (lines 92-96 index it by label and by id).
ContainerReturns(d) ==
    /\ ctr[d].state = "absent"
    /\ deployment[d].container_id # Null
    /\ ctr' = [ctr EXCEPT ![d] = [state |-> "running", exit_code |-> 0,
                                  listening |-> FALSE]]
    /\ UNCHANGED <<domain, writer, probe_active, checkRun, deployment, alias,
                   traefik, queue, startJob, abort, failRun, finRun,
                   cancelReq, expired, deployment_probe_state, emitted, stray,
                   network>>
    /\ lastLog' = NoLog

\* The deployments the reconciliation specification starts with.
Observed == {DeploymentIds[i] : i \in 1..NumObserved}

\* The first NumObserved deployments of the project have been started and
\* their containers run; no job is queued.
ReconcileInit ==
    /\ deployment = [d \in Deps |-> IF d \in Observed THEN Deployed(d) ELSE NoRow]
    /\ alias = [s \in Subdomains |-> NoAlias]
    /\ traefik = {}
    /\ queue = {}
    /\ startJob = [d \in Deps |-> [pc |-> "done", container |-> ContainerOf(d)]]
    /\ abort = {}
    /\ failRun = [d \in Deps |-> Idle]
    /\ finRun = [d \in Deps |-> Idle]
    /\ cancelReq = [d \in Deps |-> Idle]
    /\ ctr = [d \in Deps |->
                IF d \in Observed
                THEN [state |-> "running", exit_code |-> 0, listening |-> FALSE]
                ELSE NoContainer]
    /\ expired = {}
    /\ deployment_probe_state = {}
    /\ lastLog = NoLog
    /\ domain = {}
    /\ writer = [w \in Writers |-> Idle]
    /\ probe_active = {}
    /\ checkRun = [d \in Deps |-> [k \in Checks |-> Idle]]
    /\ emitted = [d \in Deps |-> 0]
    /\ stray = {}
    /\ network = [n \in Networks |-> NoNetwork]

ReconcileNext ==
    \/ ReconcileTick
    \/ \E d \in Deps : ContainerExits(d)
    \/ \E d \in Deps : ContainerVanishes(d)
    \/ \E d \in Deps : ContainerReturns(d)

ReconcileSpec == ReconcileInit /\ [][ReconcileNext]_vars

\* Containers that carry a deployment label and that no row names: one
\* labelled with the first deployment, one with the second.
StrayContainers ==
    {[id |-> "c-x", label |-> DeploymentIds[1], state |-> "paused", exit_code |-> 0],
     [id |-> "c-y", label |-> DeploymentIds[2], state |-> "dead", exit_code |-> 1]}

\* The reconciliation over a runtime that also holds stray containers.
DiscoverInit ==
    /\ deployment = [d \in Deps |-> IF d \in Observed THEN Deployed(d) ELSE NoRow]
    /\ alias = [s \in Subdomains |-> NoAlias]
    /\ traefik = {}
    /\ queue = {}
    /\ startJob = [d \in Deps |-> [pc |-> "done", container |-> ContainerOf(d)]]
    /\ abort = {}
    /\ failRun = [d \in Deps |-> Idle]
    /\ finRun = [d \in Deps |-> Idle]
    /\ cancelReq = [d \in Deps |-> Idle]
    /\ ctr = [d \in Deps |->
                IF d \in Observed
                THEN [state |-> "running", exit_code |-> 0, listening |-> FALSE]
                ELSE NoContainer]
    /\ expired = {}
    /\ deployment_probe_state = {}
    /\ lastLog = NoLog
    /\ domain = {}
    /\ writer = [w \in Writers |-> Idle]
    /\ probe_active = {}
    /\ checkRun = [d \in Deps |-> [k \in Checks |-> Idle]]
    /\ emitted = [d \in Deps |-> 0]
    /\ stray \in SUBSET StrayContainers
    /\ network = [n \in Networks |-> NoNetwork]

DiscoverSpec == DiscoverInit /\ [][ReconcileNext]_vars

\* ------------------------------------------- update_traefik_config by steps
\* The active domains a project can have: a routed one and a redirected one.
DomainRows ==
    {[hostname |-> "www.example.com", type |-> "route", environment_id |-> EnvironmentId],
     [hostname |-> "old.example.com", type |-> "301", environment_id |-> EnvironmentId]}

\* The alias of a deployment of the other project.
OtherSubdomain == "otherapp"

\* The deployment that belongs to the other project, and the project's own.
OtherDeployment == DeploymentIds[NumDeps]

OwnDeployments == Deps \ {OtherDeployment}

\* include_deployment_ids as the callers pass it: nothing (rollback, domain
\* changes) or the deployment being finalized.
Includes == {{}} \cup {{d} : d \in OwnDeployments}

IncludeKey(include) == IF include = {} THEN Null ELSE CHOOSE d \in include : TRUE

\* What a file holds when the dump into it stopped before its end.
Truncated == <<"...", "...">>

\* Where the call goes after the dump when a failed dump is followed by the
\* rename all the same (variant of AfterDump).
AfterDumpRenames(ok) == "dumped"

\* lines 381-385: the dump raising skips os.replace and goes to the finally
\* clause.
AfterDump(ok) == IF ok THEN "dumped" ELSE "failed"

\* lines 262-361: the queries and the routers built from what they return.
WriterQuery(w) ==
    /\ writer[w].pc = "idle"
    /\ \E include \in Includes :
        LET aliases == RoutedAliases(alias, include)
        IN  writer' = [writer EXCEPT ![w] =
                [pc |-> "queried", include |-> include, aliases |-> aliases,
                 domains |-> domain, config |-> routers(alias, aliases, domain),
                 tmp |-> {}]]
    /\ UNCHANGED <<deployment, alias, traefik, queue, startJob, abort,
                   failRun, finRun, cancelReq, ctr, expired,
                   deployment_probe_state, lastLog, domain, probe_active,
                   checkRun, emitted, stray, network>>

\* lines 290-293 and 363-367: nothing to route: the file, if there is one,
\* is removed and the call returns.
WriterRemove(w) ==
    /\ writer[w].pc = "queried"
    /\ NothingToRoute(writer[w].aliases, writer[w].domains, writer[w].config,
                      traefik # {})
    /\ traefik' = {}
    /\ writer' = [writer EXCEPT ![w] = Idle]
    /\ lastLog' = Log("update_traefik_config", IncludeKey(writer[w].include),
                      IF traefik # {} THEN "removed" ELSE "nothing to remove")
    /\ UNCHANGED <<deployment, alias, queue, startJob, abort, failRun, finRun,
                   cancelReq, ctr, expired, deployment_probe_state, domain,
                   probe_active, checkRun, emitted, stray, network>>

\* lines 369-380: tempfile.mkstemp makes an empty file of its own in the
\* routing directory.
WriterMkstemp(w) ==
    /\ writer[w].pc = "queried"
    /\ ~NothingToRoute(writer[w].aliases, writer[w].domains, writer[w].config,
                       traefik # {})
    /\ writer' = [writer EXCEPT ![w].pc = "tmp", ![w].tmp = {}]
    /\ UNCHANGED <<deployment, alias, traefik, queue, startJob, abort,
                   failRun, finRun, cancelReq, ctr, expired,
                   deployment_probe_state, lastLog, domain, probe_active,
                   checkRun, emitted, stray, network>>

\* lines 381-383: yaml.safe_dump into the temporary file; it may raise
\* midway and leave the file cut off.
WriterDump(w) ==
    /\ writer[w].pc = "tmp"
    /\ \E ok \in BOOLEAN :
        writer' = [writer EXCEPT
            ![w].pc = AfterDump(ok),
            ![w].tmp = IF ok THEN writer[w].config ELSE {Truncated}]
    /\ UNCHANGED <<deployment, alias, traefik, queue, startJob, abort,
                   failRun, finRun, cancelReq, ctr, expired,
                   deployment_probe_state, lastLog, domain, probe_active,
                   checkRun, emitted, stray, network>>

\* line 384: os.replace renames the temporary file over the final path.
WriterReplace(w) ==
    /\ writer[w].pc = "dumped"
    /\ traefik' = writer[w].tmp
    /\ writer' = [writer EXCEPT ![w].pc = "replaced", ![w].tmp = {}]
    /\ lastLog' = Log("update_traefik_config", IncludeKey(writer[w].include), "written")
    /\ UNCHANGED <<deployment, alias, queue, startJob, abort, failRun, finRun,
                   cancelReq, ctr, expired, deployment_probe_state, domain,
                   probe_active, checkRun, emitted, stray, network>>

\* lines 385-390: the finally clause removes the temporary file if it is
\* still there; after a failed dump the exception goes on to the caller.
WriterCleanup(w) ==
    /\ writer[w].pc \in {"failed", "replaced"}
    /\ writer' = [writer EXCEPT ![w] = Idle]
    /\ lastLog' = IF writer[w].pc = "failed"
                  THEN Log("update_traefik_config", IncludeKey(writer[w].include),
                           "Failed to update Traefik config")
                  ELSE lastLog
    /\ UNCHANGED <<deployment, alias, traefik, queue, startJob, abort,
                   failRun, finRun, cancelReq, ctr, expired,
                   deployment_probe_state, domain, probe_active, checkRun,
                   emitted, stray, network>>

\* A deployment of the project that has run to the conclusion c (Null: it
\* is still being deployed).
Concluded(d, c) ==
    IF c = Null
    THEN Deployed(d)
    ELSE update_status(Deployed(d), "completed", c, NoError, Null)

\* The database as deployments, finalizations and domain changes can have
\* left it: the project's deployments with any conclusion, its aliases on
\* any of them, any of its domains active, one alias of the other project;
\* the routing file absent or as an earlier call left it.
TraefikInit ==
    /\ \E c \in {Null, "succeeded", "failed", "canceled"} :
        deployment = [d \in Deps |->
            IF d = OtherDeployment
            THEN [Concluded(d, "succeeded") EXCEPT !.project_id = OtherProject]
            ELSE IF d = DeploymentIds[1] THEN Concluded(d, c)
            ELSE Concluded(d, "succeeded")]
    /\ \E e, i \in OwnDeployments \cup {Null} :
        alias = [s \in Subdomains \cup {OtherSubdomain} |->
            [deployment_id |->
                IF s = OtherSubdomain THEN OtherDeployment
                ELSE IF alias_type(s) = "environment_id" THEN i ELSE e,
             previous_deployment_id |-> Null]]
    /\ domain \in SUBSET DomainRows
    /\ traefik \in {{}, routers(alias, RoutedAliases(alias, {}), domain)}
    /\ queue = {}
    /\ startJob = [d \in Deps |-> [pc |-> "done", container |-> ContainerOf(d)]]
    /\ abort = {}
    /\ failRun = [d \in Deps |-> Idle]
    /\ finRun = [d \in Deps |-> Idle]
    /\ cancelReq = [d \in Deps |-> Idle]
    /\ ctr = [d \in Deps |-> [state |-> "running", exit_code |-> 0, listening |-> TRUE]]
    /\ expired = {}
    /\ deployment_probe_state = {}
    /\ lastLog = NoLog
    /\ writer = [w \in Writers |-> Idle]
    /\ probe_active = {}
    /\ checkRun = [d \in Deps |-> [k \in Checks |-> Idle]]
    /\ emitted = [d \in Deps |-> 0]
    /\ stray = {}
    /\ network = [n \in Networks |-> NoNetwork]

TraefikNext ==
    \/ \E w \in Writers : WriterQuery(w)
    \/ \E w \in Writers : WriterRemove(w)
    \/ \E w \in Writers : WriterMkstemp(w)
    \/ \E w \in Writers : WriterDump(w)
    \/ \E w \in Writers : WriterReplace(w)
    \/ \E w \in Writers : WriterCleanup(w)

TraefikSpec == TraefikInit /\ [][TraefikNext]_vars

\* ------------------------------------------------ a fail job that raises
\* fail_deployment has no handler around its body: when the load of lines
\* 457-463 has succeeded and update_status raises at lines 478-483 or
\* 536-543 (the commit fails), the exception leaves the job and arq records
\* the job as failed.
FailRaises(d) ==
    /\ failRun[d].pc \in {"loaded", "marked"}
    /\ failRun' = [failRun EXCEPT ![d] = Idle]
    /\ lastLog' = Log("fail_deployment", d, "job failed with an exception")
    /\ UNCHANGED <<deployment, alias, traefik, queue, startJob, abort, finRun,
                   cancelReq, ctr, expired, deployment_probe_state, domain,
                   writer, probe_active, checkRun, emitted, stray, network>>

\* The jobs of one deployment with the database failing under the fail job.
FaultNext ==
    \/ \E d \in Deps : Create(d)
    \/ \E d \in Deps : StartPickup(d)
    \/ \E d \in Deps : StartPrepare(d)
    \/ \E d \in Deps : StartCreate(d)
    \/ \E d \in Deps : StartRun(d)
    \/ \E d \in Deps : StartSave(d)
    \/ \E d \in Deps : FailLoad(d)
    \/ \E d \in Deps : FailMark(d)
    \/ \E d \in Deps : FailFinish(d)
    \/ \E d \in Deps : FailRaises(d)
    \/ \E d \in Deps : DeleteContainer(d)
    \/ \E d \in Deps : ContainerExits(d)
    \/ \E d \in Deps : AppListens(d)
    \/ \E d \in Deps : CheckStatus(d)
    \/ \E d \in Deps : FinalizeLoad(d)
    \/ \E d \in Deps : FinalizeAliases(d)
    \/ \E d \in Deps : FinalizeRouting(d)
    \/ \E d \in Deps : FinalizeConclude(d)

FaultSpec == Init /\ [][FaultNext]_vars

\* ------------------------------------------------- _check_status by steps
\* monitor.py lines 317-327 and 339-346: one pass of the loop creates one
\* _check_status coroutine per selected deployment and awaits them with
\* asyncio.gather. A coroutine gives way at each of its awaits. gather
\* without return_exceptions hands the first exception to the loop, which
\* logs it, sleeps and goes on with the next pass, while the other
\* coroutines of the pass keep running with nobody awaiting them.

\* lines 309-327: a pass starts once the gather of the previous one is over;
\* it selects the rows of the container_status clause and schedules one
\* coroutine for each.
MonitorGather ==
    /\ \A d \in Deps : checkRun[d]["gathered"] = Idle
    /\ running_deployments # {}
    /\ checkRun' = [d \in Deps |->
            IF d \in running_deployments
            THEN [checkRun[d] EXCEPT !["gathered"] = [pc |-> "scheduled"]]
            ELSE checkRun[d]]
    /\ UNCHANGED <<deployment, alias, traefik, queue, startJob, abort,
                   failRun, finRun, cancelReq, ctr, expired,
                   deployment_probe_state, domain, writer, probe_active,
                   emitted, stray, network>>
    /\ lastLog' = NoLog

\* Outcomes of redis_pool.enqueue_job: enqueued, or an exception. The
\* exception is drawn only while no coroutine is detached, which keeps the
\* coroutines in progress per deployment at two.
Enqueued ==
    IF \A d \in Deps : checkRun[d]["detached"] = Idle
    THEN BOOLEAN ELSE {TRUE}

\* The coroutine returns.
CheckReturns(d, k) ==
    /\ checkRun' = [checkRun EXCEPT ![d][k] = Idle]
    /\ lastLog' = NoLog

\* An exception leaves the coroutine (lines 343-344): the gather ends, the
\* loop logs the exception and stops awaiting the other coroutines of the
\* pass, which stay in progress.
CheckRaises(d, k) ==
    /\ checkRun' = [e \in Deps |->
            IF e = d THEN [checkRun[e] EXCEPT ![k] = Idle]
            ELSE IF checkRun[e]["gathered"] = Idle THEN checkRun[e]
            ELSE [gathered |-> Idle, detached |-> checkRun[e]["gathered"]]]
    /\ lastLog' = Log("monitor", d, "Critical error in monitor main loop")

\* lines 277-280: _cleanup_deployment drops the entry, flag included.
cleanup_deployment(d) ==
    /\ deployment_probe_state' = deployment_probe_state \ {d}
    /\ probe_active' = probe_active \ {d}

\* The finally clause of a probe that leaves the flag as it is (variant of
\* ProbeEnds).
ProbeEndsFlagKept(d) ==
    UNCHANGED <<deployment_probe_state, probe_active, emitted, stray, network>>

\* lines 270-272: the finally clause clears the flag of the entry, if any.
ProbeEnds(d) ==
    /\ deployment_probe_state' = deployment_probe_state
    /\ probe_active' = probe_active \ {d}

\* lines 263-269: the handler of an exception of the probe enqueues a fail
\* job with the exception text, then drops the entry; when the enqueue
\* itself raises, the finally clause runs and the exception leaves the call.
ProbeException(d, k, text) ==
    \E enqueued \in Enqueued :
        IF enqueued
        THEN /\ queue' = queue \cup {FailJob(d, text, Null)}
             /\ cleanup_deployment(d)
             /\ CheckReturns(d, k)
        ELSE /\ queue' = queue
             /\ ProbeEnds(d)
             /\ CheckRaises(d, k)

\* lines 184-225 up to the first await: the guard on the flag, the timeout
\* check, then either the lookup of the container (no entry yet) or the
\* setting of the flag of the entry.
CheckGuard(d, k) ==
    /\ checkRun[d][k] # Idle
    /\ checkRun[d][k].pc = "scheduled"
    /\ IF d \in deployment_probe_state /\ d \in probe_active
       THEN /\ CheckReturns(d, k)
            /\ UNCHANGED <<queue, deployment_probe_state, probe_active,
                           emitted, stray, network>>
       ELSE IF TimedOut(d)
       THEN /\ queue' = queue \cup {FailJob(d, "Deployment timeout", Null)}
            /\ cleanup_deployment(d)
            /\ CheckReturns(d, k)
       ELSE IF d \notin deployment_probe_state
       THEN /\ checkRun' = [checkRun EXCEPT ![d][k].pc = "get"]
            /\ lastLog' = NoLog
            /\ UNCHANGED <<queue, deployment_probe_state, probe_active,
                           emitted, stray, network>>
       ELSE /\ probe_active' = probe_active \cup {d}
            /\ checkRun' = [checkRun EXCEPT ![d][k].pc = "show"]
            /\ lastLog' = NoLog
            /\ UNCHANGED <<queue, deployment_probe_state, emitted, stray,
                           network>>
    /\ UNCHANGED <<deployment, alias, traefik, startJob, abort, failRun,
                   finRun, cancelReq, ctr, expired, domain, writer, emitted,
                   stray, network>>

\* lines 212-222: containers.get answers. Found: the entry is made with the
\* flag set. Otherwise a fail job "Container not found" is enqueued and the
\* call returns (an exception of that enqueue leaves the call).
CheckGet(d, k) ==
    /\ checkRun[d][k] # Idle
    /\ checkRun[d][k].pc = "get"
    /\ \E outcome \in GetOutcomes(d) :
        IF outcome = "ok"
        THEN /\ deployment_probe_state' = deployment_probe_state \cup {d}
             /\ probe_active' = probe_active \cup {d}
             /\ checkRun' = [checkRun EXCEPT ![d][k].pc = "show"]
             /\ lastLog' = NoLog
             /\ queue' = queue
        ELSE /\ UNCHANGED <<deployment_probe_state, probe_active, emitted,
                            stray, network>>
             /\ \E enqueued \in Enqueued :
                    IF enqueued
                    THEN /\ queue' = queue \cup {FailJob(d, "Container not found", Null)}
                         /\ CheckReturns(d, k)
                    ELSE /\ queue' = queue
                         /\ CheckRaises(d, k)
    /\ UNCHANGED <<deployment, alias, traefik, startJob, abort, failRun,
                   finRun, cancelReq, ctr, expired, domain, writer, emitted,
                   stray, network>>

\* lines 228-240 and 263-273: container.show() answers.
\*   raises   (the container is gone, or the runtime endpoint fails):
\*            exception handler;
\*   exited   fail job with the exit code, entry dropped (an exception of
\*            the enqueue goes to the exception handler);
\*   running  on to the HTTP probe;
\*   other    nothing to do, the finally clause ends the probe.
CheckShow(d, k) ==
    /\ checkRun[d][k] # Idle
    /\ checkRun[d][k].pc = "show"
    /\ \E outcome \in GetOutcomes(d) :
        CASE outcome = "404" ->
                ProbeException(d, k, "Docker error 404")
          [] outcome = "error" ->
                ProbeException(d, k, "Docker error 500")
          [] outcome = "ok" /\ ctr[d].state = "exited" ->
                \E enqueued \in Enqueued :
                    IF enqueued
                    THEN /\ queue' = queue \cup
                                {FailJob(d, "Container exited with code "
                                            \o ToString(ctr[d].exit_code), Null)}
                         /\ cleanup_deployment(d)
                         /\ CheckReturns(d, k)
                    ELSE ProbeException(d, k, "Redis connection error")
          [] outcome = "ok" /\ ctr[d].state = "running" ->
                /\ checkRun' = [checkRun EXCEPT ![d][k].pc = "http"]
                /\ lastLog' = NoLog
                /\ UNCHANGED <<queue, deployment_probe_state, probe_active,
                               emitted, stray, network>>
          [] OTHER ->
                /\ queue' = queue
                /\ ProbeEnds(d)
                /\ CheckReturns(d, k)
    /\ UNCHANGED <<deployment, alias, traefik, startJob, abort, failRun,
                   finRun, cancelReq, ctr, expired, domain, writer, emitted,
                   stray, network>>

\* lines 242-261 and 270-273: the HTTP probe answers. Ready: a finalize job
\* is enqueued and the entry dropped. Not ready: the finally clause ends the
\* probe and the entry stays for the next pass.
CheckProbe(d, k) ==
    /\ checkRun[d][k] # Idle
    /\ checkRun[d][k].pc = "http"
    /\ IF ctr[d].state = "running" /\ ctr[d].listening
       THEN \E enqueued \in Enqueued :
                IF enqueued
                THEN /\ queue' = queue \cup {FinalizeJob(d)}
                     /\ cleanup_deployment(d)
                     /\ CheckReturns(d, k)
                ELSE ProbeException(d, k, "Redis connection error")
       ELSE /\ queue' = queue
            /\ ProbeEnds(d)
            /\ CheckReturns(d, k)
    /\ UNCHANGED <<deployment, alias, traefik, startJob, abort, failRun,
                   finRun, cancelReq, ctr, expired, domain, writer, emitted,
                   stray, network>>

\* The containers the deployments under watch can have: created and not
\* started, running with the app silent or listening, exited, gone.
ProbeContainers ==
    {[state |-> "created", exit_code |-> 0, listening |-> FALSE],
     [state |-> "running", exit_code |-> 0, listening |-> FALSE],
     [state |-> "running", exit_code |-> 0, listening |-> TRUE],
     [state |-> "exited", exit_code |-> 1, listening |-> FALSE],
     NoContainer}

\* Deployments that wait for readiness (status deploy, container_status
\* running), each with one of the containers above; no call in progress.
ProbeInit ==
    /\ deployment = [d \in Deps |-> IF d \in Observed THEN Deployed(d) ELSE NoRow]
    /\ alias = [s \in Subdomains |-> NoAlias]
    /\ traefik = {}
    /\ queue = {}
    /\ startJob = [d \in Deps |-> [pc |-> "done", container |-> ContainerOf(d)]]
    /\ abort = {}
    /\ failRun = [d \in Deps |-> Idle]
    /\ finRun = [d \in Deps |-> Idle]
    /\ cancelReq = [d \in Deps |-> Idle]
    /\ ctr \in [Deps -> ProbeContainers]
    /\ \A d \in Deps \ Observed : ctr[d] = NoContainer
    /\ expired = {}
    /\ deployment_probe_state = {}
    /\ lastLog = NoLog
    /\ domain = {}
    /\ writer = [w \in Writers |-> Idle]
    /\ probe_active = {}
    /\ checkRun = [d \in Deps |-> [k \in Checks |-> Idle]]
    /\ emitted = [d \in Deps |-> 0]
    /\ stray = {}
    /\ network = [n \in Networks |-> NoNetwork]

\* The monitor process over those deployments.
ProbeNext ==
    \/ MonitorGather
    \/ \E d \in Deps, k \in Checks : CheckGuard(d, k)
    \/ \E d \in Deps, k \in Checks : CheckGet(d, k)
    \/ \E d \in Deps, k \in Checks : CheckShow(d, k)
    \/ \E d \in Deps, k \in Checks : CheckProbe(d, k)

ProbeSpec == ProbeInit /\ [][ProbeNext]_vars

\* ------------------------------------- _detach_probe_from_unused_networks
\* monitor.py lines 328-337: after the checks of a pass the monitor goes
\* through the workspace networks its own container is attached to. The
\* steps below are the awaits of that walk for one network at a time; the
\* runtime changes in between. (In the specifications above no workspace
\* network exists and the walk finds nothing.)

\* Containers that attach to workspace networks: the container of the first
\* deployment, which carries the devpush.deployment_id label, and one
\* without the label.
Sidecar == "sidecar"

NetworkContainers == {ContainerOf(DeploymentIds[1]), Sidecar}

\* lines 111-113: the containers that carry the deployment label.
DeploymentContainers == {ContainerOf(d) : d \in Deps}

\* lines 92-115: _network_has_deployments. A network the runtime does not
\* have has none (95-100); an attached container whose inspection raises is
\* passed over (105-109); uninspected is the set of those.
network_has_deployments(n, uninspected) ==
    /\ network[n].exists
    /\ \E c \in network[n].containers \ uninspected : c \in DeploymentContainers

\* lines 152-162: the walk reaches a network the probe is attached to and
\* asks whether it has deployments; if so, or if the network cannot be
\* fetched, it goes on to the next network.
DetachCheck(n) ==
    /\ \A m \in Networks : network[m].pc = "idle"
    /\ network[n].probe
    /\ \E uninspected \in SUBSET network[n].containers :
        network' = [network EXCEPT ![n].pc =
            IF network_has_deployments(n, uninspected) \/ ~network[n].exists
            THEN "idle" ELSE "unused"]
    /\ lastLog' = NoLog
    /\ UNCHANGED <<deployment, alias, traefik, queue, startJob, abort, failRun,
                   finRun, cancelReq, ctr, expired, deployment_probe_state,
                   domain, writer, probe_active, checkRun, emitted, stray>>

\* lines 164-171: disconnect the probe. A 404 or 409 (not attached, no such
\* network) is passed over; any other error is logged and the walk goes on
\* to the next network.
DetachDisconnect(n) ==
    /\ network[n].pc = "unused"
    /\ IF network[n].exists /\ network[n].probe
       THEN \E ok \in BOOLEAN :
                IF ok
                THEN /\ network' = [network EXCEPT ![n].probe = FALSE,
                                                   ![n].pc = "detached"]
                     /\ lastLog' = NoLog
                ELSE /\ network' = [network EXCEPT ![n].pc = "idle"]
                     /\ lastLog' = Log("monitor", Null, "Failed to detach probe")
       ELSE /\ network' = [network EXCEPT ![n].pc = "detached"]
            /\ lastLog' = NoLog
    /\ UNCHANGED <<deployment, alias, traefik, queue, startJob, abort, failRun,
                   finRun, cancelReq, ctr, expired, deployment_probe_state,
                   domain, writer, probe_active, checkRun, emitted, stray>>

\* lines 173-174 and 118-136: when the network still has no deployments,
\* _remove_network_if_empty deletes it if nothing at all is attached; an
\* error of the delete is passed over.
DetachRemove(n) ==
    /\ network[n].pc = "detached"
    /\ \E uninspected \in SUBSET network[n].containers, deleted \in BOOLEAN :
        network' = [network EXCEPT ![n] =
            IF /\ ~network_has_deployments(n, uninspected)
               /\ network[n].exists
               /\ network[n].containers = {}
               /\ ~network[n].probe
               /\ deleted
            THEN NoNetwork
            ELSE [@ EXCEPT !.pc = "idle"]]
    /\ lastLog' = NoLog
    /\ UNCHANGED <<deployment, alias, traefik, queue, startJob, abort, failRun,
                   finRun, cancelReq, ctr, expired, deployment_probe_state,
                   domain, writer, probe_active, checkRun, emitted, stray>>

\* lines 72-89: _ensure_probe_on_network, called by a check of a container
\* labelled with the network: the probe is attached if the network exists.
EnsureProbeOnNetwork(n) ==
    /\ network[n].exists
    /\ ~network[n].probe
    /\ network' = [network EXCEPT ![n].probe = TRUE]
    /\ lastLog' = NoLog
    /\ UNCHANGED <<deployment, alias, traefik, queue, startJob, abort, failRun,
                   finRun, cancelReq, ctr, expired, deployment_probe_state,
                   domain, writer, probe_active, checkRun, emitted, stray>>

\* The runtime: a container is attached to a network or leaves it.
ContainerJoins(n, c) ==
    /\ network[n].exists
    /\ c \notin network[n].containers
    /\ network' = [network EXCEPT ![n].containers = @ \cup {c}]
    /\ lastLog' = NoLog
    /\ UNCHANGED <<deployment, alias, traefik, queue, startJob, abort, failRun,
                   finRun, cancelReq, ctr, expired, deployment_probe_state,
                   domain, writer, probe_active, checkRun, emitted, stray>>

ContainerLeaves(n, c) ==
    /\ c \in network[n].containers
    /\ network' = [network EXCEPT ![n].containers = @ \ {c}]
    /\ lastLog' = NoLog
    /\ UNCHANGED <<deployment, alias, traefik, queue, startJob, abort, failRun,
                   finRun, cancelReq, ctr, expired, deployment_probe_state,
                   domain, writer, probe_active, checkRun, emitted, stray>>

\* Workspace networks with the probe attached, each with any of the
\* containers above.
NetworkInit ==
    /\ deployment = [d \in Deps |-> IF d \in Observed THEN Deployed(d) ELSE NoRow]
    /\ alias = [s \in Subdomains |-> NoAlias]
    /\ traefik = {}
    /\ queue = {}
    /\ startJob = [d \in Deps |-> [pc |-> "done", container |-> ContainerOf(d)]]
    /\ abort = {}
    /\ failRun = [d \in Deps |-> Idle]
    /\ finRun = [d \in Deps |-> Idle]
    /\ cancelReq = [d \in Deps |-> Idle]
    /\ ctr = [d \in Deps |->
                IF d \in Observed
                THEN [state |-> "running", exit_code |-> 0, listening |-> FALSE]
                ELSE NoContainer]
    /\ expired = {}
    /\ deployment_probe_state = {}
    /\ lastLog = NoLog
    /\ domain = {}
    /\ writer = [w \in Writers |-> Idle]
    /\ probe_active = {}
    /\ checkRun = [d \in Deps |-> [k \in Checks |-> Idle]]
    /\ emitted = [d \in Deps |-> 0]
    /\ stray = {}
    /\ network \in [Networks ->
            {[exists |-> TRUE, probe |-> TRUE, containers |-> cs, pc |-> "idle"] :
                cs \in SUBSET NetworkContainers}]

NetworkNext ==
    \/ \E n \in Networks : DetachCheck(n)
    \/ \E n \in Networks : DetachDisconnect(n)
    \/ \E n \in Networks : DetachRemove(n)
    \/ \E n \in Networks : EnsureProbeOnNetwork(n)
    \/ \E n \in Networks, c \in NetworkContainers : ContainerJoins(n, c)
    \/ \E n \in Networks, c \in NetworkContainers : ContainerLeaves(n, c)

NetworkSpec == NetworkInit /\ [][NetworkNext]_vars

\* ----------------------------------------------------------------- claims
\* C1: once a deployment's conclusion is non-null, no step of any handler
\* changes its conclusion or its status again.
C1_ConclusionPermanent ==
    [][\A d \in Deps :
            deployment[d].conclusion # Null =>
                /\ deployment'[d].conclusion = deployment[d].conclusion
                /\ deployment'[d].status = deployment[d].status]_vars

\* C2: in every reachable state a deployment's status is completed exactly
\* when its conclusion is non-null.
C2_CompletedIffConcluded ==
    \A d \in Rows :
        (deployment[d].status = "completed") <=> (deployment[d].conclusion # Null)

\* C3: fail_deployment on a deployment that already has a conclusion consumes
\* its job and changes no deployment field, stops no container and enqueues
\* no job; and a fail_deployment that runs to its end leaves a conclusion, so
\* a second run after it is such a no-op.
C3_FailOnConcludedIsNoOp ==
    [][\A d \in Deps :
            /\ (FailLoad(d) /\ deployment[d].conclusion # Null) =>
                    /\ deployment' = deployment
                    /\ ctr' = ctr
                    /\ failRun' = failRun
                    /\ queue' \subseteq queue
            /\ FailFinish(d) => deployment'[d].conclusion # Null]_vars

\* C3 witness: a fail job has just been skipped on a concluded deployment.
C3_Witness ==
    \E d \in Deps :
        /\ lastLog = Log("fail_deployment", d, "skipping fail handler")
        /\ deployment[d].conclusion # Null

\* C4: cancel() on a deployment it loaded with status finalize, fail or
\* completed, or with a conclusion, raises and changes nothing: no deployment
\* field, no abort request, no container, no job.
C4_CancelRefusedChangesNothing ==
    [][\A d \in Deps :
            (/\ CancelCheck(d)
             /\ \/ cancelReq[d].snap.status \in {"finalize", "fail", "completed"}
                \/ cancelReq[d].snap.conclusion # Null) =>
                /\ lastLog' = Log("cancel", d, "Error canceling deployment")
                /\ cancelReq'[d] = Idle
                /\ deployment' = deployment
                /\ abort' = abort
                /\ ctr' = ctr
                /\ queue' = queue]_vars

\* C4 witness: a second cancel() of a canceled deployment has just been
\* refused.
C4_Witness ==
    \E d \in Deps :
        /\ lastLog = Log("cancel", d, "Error canceling deployment")
        /\ deployment[d].conclusion = "canceled"
        /\ deployment[d].status = "completed"

\* A delete_container job for d deferred by the grace period.
DeferredDelete(j, d) ==
    /\ j.fn = "delete_container"
    /\ j.dep = d
    /\ j.defer = ContainerDeleteGraceSeconds

\* C5 as stated: cancel() that passes its test sets completed/canceled, and
\* when the row names a container not yet stopped or removed, the container
\* is stopped, a delete job deferred by the grace period is enqueued and
\* container_status is stopped when cancel returns.
C5_CancelStopsAndSchedules ==
    [][\A d \in Deps :
            /\ (CancelCheck(d) /\ ~CancelRefused(cancelReq[d].snap)) =>
                    /\ deployment'[d].status = "completed"
                    /\ deployment'[d].conclusion = "canceled"
            /\ (CancelStop(d) /\ HasLiveContainer(cancelReq[d].snap)) =>
                    /\ ctr'[d].state \notin {"running", "absent"}
                    /\ \E j \in queue' : DeferredDelete(j, d)
                    /\ deployment'[d].container_status = "stopped"]_vars

\* C5 amended: cancel() that passes its test sets completed/canceled; when
\* the row names a container not yet stopped or removed, then either the
\* runtime returns the container, a stop is attempted (its failure is
\* ignored), the container is kept, a delete job deferred by the grace period
\* is enqueued and container_status becomes stopped; or the runtime has no such container, container_status becomes
\* removed and nothing is enqueued; or the runtime call fails and nothing
\* further changes.
C5_CancelBestEffort ==
    [][\A d \in Deps :
            /\ (CancelCheck(d) /\ ~CancelRefused(cancelReq[d].snap)) =>
                    /\ deployment'[d].status = "completed"
                    /\ deployment'[d].conclusion = "canceled"
            /\ (CancelStop(d) /\ HasLiveContainer(cancelReq[d].snap)) =>
                    \/ /\ ctr[d].state # "absent"
                       /\ ctr'[d] \in {Stopped(ctr[d]), ctr[d]}
                       /\ \E j \in queue' : DeferredDelete(j, d)
                       /\ \A j \in queue' \ queue : DeferredDelete(j, d)
                       /\ deployment'[d].container_status = "stopped"
                    \/ /\ ctr[d].state = "absent"
                       /\ deployment'[d].container_status = "removed"
                       /\ queue' = queue
                       /\ ctr' = ctr
                    \/ /\ deployment' = deployment
                       /\ queue' = queue
                       /\ ctr' = ctr]_vars

\* C5 witness: cancel() has returned on a canceled deployment whose container
\* it stopped: the container still exists, its deletion is scheduled.
C5_Witness ==
    \E d \in Deps :
        /\ cancelReq[d] = Idle
        /\ deployment[d].conclusion = "canceled"
        /\ deployment[d].container_id # Null
        /\ deployment[d].container_status = "stopped"
        /\ ctr[d].state = "exited"
        /\ startJob[d].pc = "done"
        /\ \E j \in queue : DeferredDelete(j, d)

\* C6: a deployment in status deploy with container_status running whose
\* container runs and answers on the application port eventually ends
\* completed/succeeded with the environment alias pointing at it, unless the
\* container stops running or the deployment is canceled or failed first.
C6_ReadyDeploymentSucceeds ==
    \A d \in Deps :
        (/\ d \in Rows
         /\ deployment[d].status = "deploy"
         /\ deployment[d].container_status = "running"
         /\ ctr[d].state = "running"
         /\ ctr[d].listening)
            ~> \/ /\ deployment[d].status = "completed"
                  /\ deployment[d].conclusion = "succeeded"
                  /\ alias[ProjectSlug].deployment_id = d
               \/ ctr[d].state # "running"
               \/ deployment[d].conclusion \in {"canceled", "failed"}

\* A fail job of d that carries the timeout reason, in either argument.
TimeoutJob(j, d) ==
    /\ j.fn = "fail_deployment"
    /\ j.dep = d
    /\ "Deployment timeout" \in {j.status, j.reason}

\* C7: a check of a deployment whose age is past the deployment timeout
\* enqueues a fail job with the timeout reason, and nothing else.
C7_TimeoutTriggersFail ==
    [][\A d \in Deps :
            (CheckStatus(d) /\ d \in expired) =>
                /\ \E j \in queue' : TimeoutJob(j, d)
                /\ \A j \in queue' \ queue : TimeoutJob(j, d)]_vars

\* Position of a status in the order prepare, deploy, finalize|fail, completed.
StageRank(status) ==
    CASE status = "prepare" -> 1
      [] status = "deploy" -> 2
      [] status \in {"finalize", "fail"} -> 3
      [] status = "completed" -> 4
      [] OTHER -> 0

\* C8: no step sets a deployment's status back to an earlier stage of the
\* order prepare, deploy, finalize|fail, completed.
C8_StatusNeverGoesBack ==
    [][\A d \in Deps :
            StageRank(deployment'[d].status) >= StageRank(deployment[d].status)]_vars

\* C9: conclusion succeeded is only ever set on a deployment whose status is
\* finalize.
C9_SucceededOnlyFromFinalize ==
    [][\A d \in Deps :
            (/\ deployment[d].conclusion # "succeeded"
             /\ deployment'[d].conclusion = "succeeded") =>
                deployment[d].status = "finalize"]_vars

\* C10: when finalize_deployment records completed/succeeded, each alias of
\* the deployment points at it and the published routing file holds the rule
\* routing that alias to it.
C10_SuccessImpliesRouted ==
    [][\A d \in Deps :
            FinalizeConclude(d) =>
                \A s \in Subdomains :
                    /\ alias'[s].deployment_id = d
                    /\ <<s, d>> \in traefik']_vars

\* A fail job of d entered from the finalize stage.
FinalizeFailJob(j, d) ==
    /\ j.fn = "fail_deployment"
    /\ j.dep = d
    /\ j.status = "finalize"

\* C11: when finalize_deployment's alias setup leaves an alias of the
\* deployment not pointing at it, or the routing file is not regenerated,
\* the job stops there and a fail job with stage finalize is enqueued, so
\* that the deployment does not conclude succeeded.
C11_FinalizeFailureRoutesToFail ==
    [][\A d \in Deps :
            /\ (/\ FinalizeAliases(d)
                /\ \E s \in Subdomains : alias'[s].deployment_id # d) =>
                    /\ finRun'[d] = Idle
                    /\ \E j \in queue' : FinalizeFailJob(j, d)
            /\ (/\ FinalizeRouting(d)
                /\ traefik' # update_traefik_config(alias, {d})) =>
                    /\ finRun'[d] = Idle
                    /\ \E j \in queue' : FinalizeFailJob(j, d)]_vars

\* C12: the fail path entered from the finalize stage on a deployment whose
\* container runs and answers does not stop the container, enqueues no
\* delete job and leaves container_status as it is.
C12_FinalizeFailKeepsContainer ==
    [][\A d \in Deps :
            (/\ FailFinish(d)
             /\ failRun[d].status = "finalize"
             /\ deployment[d].container_status = "running"
             /\ ctr[d].state = "running"
             /\ ctr[d].listening) =>
                /\ ctr'[d] = ctr[d]
                /\ \A j \in queue' \ queue : j.fn # "delete_container"
                /\ deployment'[d].container_status = "running"]_vars

\* C13: the error stored on a failed deployment has a stage among prepare,
\* deploy, finalize and, as message, a reason its trigger supplied (not the
\* placeholder used when no reason is given).
C13_ErrorIsStageAndReason ==
    \A d \in Rows :
        deployment[d].conclusion = "failed" =>
            /\ deployment[d].error.status \in {"prepare", "deploy", "finalize"}
            /\ deployment[d].error.message # "Deployment failed"

\* The reason text the monitor builds for an exit code.
GenericExitReason(code) == "Container exited with code " \o ToString(code)

\* C14: a check that finds the container of a deployment in status deploy
\* exited enqueues a fail job whose reason argument is mapped from the exit
\* code (a reason of its own for 137 and for 0, the generic text for any
\* other code), and the fail path stores that reason as the error message.
C14_ExitCodeReason ==
    [][\A d \in Deps :
            /\ (/\ CheckStatus(d)
                /\ deployment[d].status = "deploy"
                /\ ctr[d].state = "exited") =>
                    \E j \in queue' :
                        /\ j.fn = "fail_deployment"
                        /\ j.dep = d
                        /\ j.reason # Null
                        /\ (j.reason = GenericExitReason(ctr[d].exit_code))
                                <=> (ctr[d].exit_code \notin {0, 137})
            /\ (FailFinish(d) /\ ctr[d].state = "exited") =>
                    /\ deployment'[d].conclusion = "failed"
                    /\ deployment'[d].error.message = failRun[d].reason]_vars

\* C15: a rollback of an environment alias that has a previous deployment
\* exactly swaps deployment_id and previous_deployment_id and touches no
\* other alias; the swapped alias has a previous deployment again, and
\* swapping it once more gives back the original pair.
C15_RollbackInvolution ==
    [][(Rollback /\ alias[ProjectSlug].previous_deployment_id # Null) =>
            /\ alias'[ProjectSlug].deployment_id = alias[ProjectSlug].previous_deployment_id
            /\ alias'[ProjectSlug].previous_deployment_id = alias[ProjectSlug].deployment_id
            /\ \A s \in Subdomains \ {ProjectSlug} : alias'[s] = alias[s]
            /\ ~RollbackRefused(alias'[ProjectSlug])
            /\ swap_alias(alias'[ProjectSlug]) = alias[ProjectSlug]]_vars

\* C15 witness: a rollback has just swapped an alias between two different
\* deployments and emitted its event.
C15_Witness ==
    \E d \in Deps :
        /\ lastLog = Log("rollback", d, "deployment_rollback")
        /\ alias[ProjectSlug].deployment_id = d
        /\ alias[ProjectSlug].previous_deployment_id \notin {Null, d}

\* C16: rollback() of an environment whose alias does not exist or has no
\* previous deployment raises 'No previous deployment to roll back to.' and
\* changes no alias, leaves the routing file as it is and emits no event.
C16_RollbackRefusedChangesNothing ==
    [][(/\ Rollback
        /\ \/ alias[ProjectSlug] = NoAlias
           \/ alias[ProjectSlug].previous_deployment_id = Null) =>
            /\ lastLog' = Log("rollback", Null, "No previous deployment to roll back to.")
            /\ alias' = alias
            /\ traefik' = traefik
            /\ deployment' = deployment
            /\ queue' = queue]_vars

\* C16 witness: a rollback has just been refused on an alias that points at a
\* deployment and has no previous one.
C16_Witness ==
    /\ lastLog = Log("rollback", Null, "No previous deployment to roll back to.")
    /\ alias[ProjectSlug].deployment_id # Null
    /\ alias[ProjectSlug].previous_deployment_id = Null

\* C17: when finalize_deployment has set up the aliases of a deployment and
\* goes on, the environment alias points at that deployment and keeps the
\* deployment it pointed at before as previous_deployment_id; a rollback
\* that is not refused then flips the two.
C17_AliasKeepsOneLevel ==
    [][/\ \A d \in Deps :
            (FinalizeAliases(d) /\ finRun'[d].pc = "aliased") =>
                /\ alias'[ProjectSlug].deployment_id = d
                /\ alias'[ProjectSlug].previous_deployment_id =
                        alias[ProjectSlug].deployment_id
       /\ (Rollback /\ alias' # alias) =>
                alias'[ProjectSlug] = swap_alias(alias[ProjectSlug])]_vars

\* C18: a reconciliation tick leaves status, conclusion, error,
\* container_id, container_status and job_id of every deployment as they
\* were, changes no row it does not process, and enqueues no job.
C18_ReconcileWritesObservedOnly ==
    [][ReconcileTick =>
        /\ queue' = queue
        /\ \A d \in Deps \ ReconcileCandidates : deployment'[d] = deployment[d]
        /\ \A d \in Rows :
            /\ deployment'[d].status = deployment[d].status
            /\ deployment'[d].conclusion = deployment[d].conclusion
            /\ deployment'[d].error = deployment[d].error
            /\ deployment'[d].container_id = deployment[d].container_id
            /\ deployment'[d].container_status = deployment[d].container_status
            /\ deployment'[d].job_id = deployment[d].job_id]_vars

\* C18 witness: a tick has counted the container of a concluded deployment
\* as missing.
C18_Witness ==
    \E d \in Rows :
        /\ deployment[d].conclusion # Null
        /\ deployment[d].observed_status = "not_found"
        /\ deployment[d].observed_missing_count > 0

\* C19 as stated: on a tick that processes its candidates, a deployment with
\* no resolving container gets observed_status not_found and one more
\* missing tick; a deployment counted as missing whose container resolves
\* gets its observed_missing_count set to 0.
C19_FoundResetsCount ==
    [][(ReconcileTick /\ lastLog' = NoLog) =>
        \A d \in ReconcileCandidates :
            /\ ResolveContainer(d) = Null =>
                /\ deployment'[d].observed_status = "not_found"
                /\ deployment'[d].observed_missing_count =
                        deployment[d].observed_missing_count + 1
            /\ (ResolveContainer(d) # Null /\ deployment[d].observed_missing_count > 0) =>
                deployment'[d].observed_missing_count = 0]_vars

\* C19 amended: on a tick that processes its candidates, a deployment with
\* no resolving container gets observed_status not_found and one more
\* missing tick; a deployment whose container resolves either has the
\* inspected state recorded and its observed_missing_count set to 0, or,
\* when the inspection failed, is counted as missing like the former.
C19_InspectedResetsCount ==
    [][(ReconcileTick /\ lastLog' = NoLog) =>
        \A d \in ReconcileCandidates :
            /\ ResolveContainer(d) = Null =>
                /\ deployment'[d].observed_status = "not_found"
                /\ deployment'[d].observed_missing_count =
                        deployment[d].observed_missing_count + 1
            /\ ResolveContainer(d) # Null =>
                \/ /\ deployment'[d].observed_status = Classify(ctr[d].state)
                   /\ deployment'[d].observed_exit_code = {ctr[d].exit_code}
                   /\ deployment'[d].observed_missing_count = 0
                \/ /\ deployment'[d].observed_status = "not_found"
                   /\ deployment'[d].observed_exit_code = deployment[d].observed_exit_code
                   /\ deployment'[d].observed_missing_count =
                        deployment[d].observed_missing_count + 1]_vars

\* C19 witness: one deployment has been counted as missing on MaxMissing
\* ticks in a row and its container is still gone, while a tick has
\* observed the running container of another and left its count at 0.
C19_Witness ==
    \E d, e \in Deps :
        /\ ctr[d].state = "absent"
        /\ deployment[d].observed_status = "not_found"
        /\ deployment[d].observed_missing_count = MaxMissing
        /\ ctr[e].state = "running"
        /\ deployment[e].observed_status = "running"
        /\ deployment[e].observed_missing_count = 0

\* The deployments some alias references, as current or as previous.
Referenced ==
    {d \in Deps : \E s \in Subdomains :
        d \in {alias[s].deployment_id, alias[s].previous_deployment_id}}

Qualifies(s, inc) ==
    /\ alias[s].deployment_id # Null
    /\ deployment[alias[s].deployment_id].project_id = ProjectId
    /\ \/ deployment[alias[s].deployment_id].conclusion = "succeeded"
       \/ alias[s].deployment_id \in inc

\* C21: the routing file at its final path is always absent or a whole
\* configuration that one update_traefik_config call generates from the
\* database; it never holds a file that was cut off, whatever dumps fail
\* and however the calls of the two processes interleave.
C21_FileNeverPartial ==
    /\ Truncated \notin traefik
    /\ traefik \in {{}} \cup {update_traefik_config(alias, inc) : inc \in Includes}

\* C21 witness: one call's dump has failed and left a cut-off temporary
\* file while the other call has renamed its file over the final path.
C21_Witness ==
    \E w, v \in Writers :
        /\ writer[w].pc = "failed"
        /\ writer[w].tmp = {Truncated}
        /\ writer[v].pc = "replaced"
        /\ traefik # {}

\* C22: the file a call writes has a rule for an alias exactly when the
\* alias is on a deployment of the project that has succeeded or is in the
\* included ids, and that rule leads to the alias's deployment; an alias on
\* another project's deployment or on an unconcluded, failed or canceled
\* deployment that is not included has none.
C22_RulesOnlyForQualifyingAliases ==
    [][\A w \in Writers : WriterReplace(w) =>
        \A s \in DOMAIN alias :
            /\ Qualifies(s, writer[w].include) <=>
                    (<<s, alias[s].deployment_id>> \in traefik')
            /\ \A r \in traefik' : r[1] = s => r[2] = alias[s].deployment_id]_vars

\* C22 witness: a call has written a file with rules while an alias of the
\* project is on a deployment that has not succeeded and got no rule.
C22_Witness ==
    /\ lastLog.msg = "written"
    /\ traefik # {}
    /\ \E s \in Subdomains :
        /\ alias[s].deployment_id # Null
        /\ deployment[alias[s].deployment_id].conclusion \in {Null, "failed", "canceled"}
        /\ \A r \in traefik : r[1] # s

\* C23: a call that finds no qualifying alias (so that no rule results,
\* with or without active domains) goes from its queries straight to its
\* end, leaves no file at the final path and makes no temporary file.
C23_NothingToRouteRemovesFile ==
    [][\A w \in Writers :
        (/\ writer[w].pc = "queried"
         /\ writer'[w] # writer[w]
         /\ \A s \in DOMAIN alias : ~Qualifies(s, writer[w].include)) =>
            /\ traefik' = {}
            /\ writer'[w] = Idle]_vars

\* C23 witness: a call with active domains and nothing to route has removed
\* the file another call had written.
C23_Witness ==
    /\ lastLog.msg = "removed"
    /\ traefik = {}
    /\ domain # {}

C26_ExceptionBecomesFailTransition ==
    [][\A d \in Deps :
        LET NewFailJob == \E j \in queue' :
                                j.fn = "fail_deployment" /\ j.dep = d
        IN  /\ (startJob[d].pc \in {"prepared", "created"} /\ startJob'[d].pc = "done")
                    => NewFailJob
            /\ (finRun[d].pc = "loaded" /\ finRun'[d] = Idle) => NewFailJob
            /\ (failRun[d].pc \in {"loaded", "marked"} /\ failRun'[d] = Idle)
                    => (NewFailJob \/ deployment'[d].conclusion = "failed")]_vars

\* C27: a step of finalize_deployment on a deployment that already has a
\* conclusion changes no row, no alias and not the routing file.
C27_FinalizeOnConcludedIsNoOp ==
    [][\A d \in Deps :
        (/\ deployment[d].conclusion # Null
         /\ \/ FinalizeLoad(d) \/ FinalizeAliases(d)
            \/ FinalizeRouting(d) \/ FinalizeConclude(d)) =>
            /\ deployment' = deployment
            /\ alias' = alias
            /\ traefik' = traefik]_vars

\* C28: after a cancel request has been committed and has sent an abort
\* request to the start job, the deployment is never in status deploy with
\* a container recorded as running.
C28_NoDeployAfterCommittedCancel ==
    \A d \in Deps :
        (/\ deployment[d].conclusion = "canceled"
         /\ startJob[d].container # Null
         /\ d \in abort \/ startJob[d].pc = "aborted") =>
            ~(/\ deployment[d].status = "deploy"
              /\ deployment[d].container_status = "running")

\* A _check_status coroutine of d that has passed the guard, holds the
\* container and is inspecting or probing it.
Probing(d, k) == checkRun[d][k].pc \in {"show", "http"}

\* C29: at most one probe of a deployment is in progress at any time in the
\* monitor process.
C29_OneProbePerDeployment ==
    \A d \in Deps : Cardinality({k \in Checks : Probing(d, k)}) <= 1

\* C30: when the inspection of one deployment with a running container
\* raises during a pass of the monitor (the step enqueues a job without
\* having reached the HTTP probe), the only job enqueued is a fail job of
\* that deployment whose reason is the exception text, and the coroutines
\* of the other deployments stay in progress where they were.
C30_ExceptionFailsWithItsText ==
    [][\A d \in Deps, k \in Checks :
            (CheckShow(d, k) /\ ctr[d].state = "running" /\ queue' # queue) =>
                /\ \A j \in queue' \ queue :
                        /\ j.fn = "fail_deployment"
                        /\ j.dep = d
                        /\ j.reason = "Docker error 500"
                /\ \A e \in Deps \ {d} :
                        {checkRun'[e][c] : c \in Checks} =
                            {checkRun[e][c] : c \in Checks}]_vars

\* The app of d's running container does not answer the HTTP probe.
NotReady(d) == ctr[d].state = "running" /\ ~ctr[d].listening

C33_ResolvesOwnContainerOnly ==
    [][(ReconcileTick /\ lastLog' = NoLog) =>
        \A d \in ReconcileCandidates :
            /\ deployment'[d].container_id = deployment[d].container_id
            /\ deployment'[d].observed_missing_count = 0 =>
                \E c \in Listed :
                    /\ c.id = deployment[d].container_id \/ c.label = d
                    /\ deployment'[d].observed_status = Classify(c.state)
                    /\ deployment'[d].observed_exit_code = {c.exit_code}]_vars

\* The container a deployment's row names is gone, a tick has found the
\* stray container with the deployment's label and recorded its state, and
\* the row still names the first; meanwhile a stray container that carries
\* another deployment's label is listed.
C33_Witness ==
    \E d \in Deps :
        /\ ctr[d].state = "absent"
        /\ deployment[d].container_id = ContainerOf(d)
        /\ \E c \in stray : c.label = d /\ deployment[d].observed_status = c.state
        /\ \E c \in stray : c.label # d
        /\ deployment[d].observed_missing_count = 0

\* C34: whichever upserts of setup_aliases raise, every other one is made:
\* the alias of each type whose upsert does not raise is upserted to the
\* deployment and the others stay as they were; and a finalize job that has
\* set up the aliases and goes on leaves each of the three aliases either
\* as it was or upserted to its deployment.
C34_UpsertsAreIndependent ==
    /\ [](\A d \in Deps, failed \in SUBSET AliasTypes, t \in AliasTypes :
            setup_aliases(d, failed)[get_alias_domains[t]] =
                IF t \in failed
                THEN alias[get_alias_domains[t]]
                ELSE update_or_create(alias[get_alias_domains[t]], d))
    /\ [][\A d \in Deps :
            (FinalizeAliases(d) /\ finRun'[d].pc = "aliased") =>
                \A s \in Subdomains :
                    alias'[s] \in {alias[s], update_or_create(alias[s], d)}]_vars

\* A finalize job has set up the aliases with the branch upsert failing: the
\* branch alias still points at the previous deployment while the
\* environment alias and the environment-identifier alias point at the
\* finalizing one.
C34_Witness ==
    \E d \in Deps :
        /\ finRun[d].pc = "aliased"
        /\ alias[get_alias_domains["branch"]].deployment_id \notin {d, Null}
        /\ alias[get_alias_domains["environment"]].deployment_id = d
        /\ alias[get_alias_domains["environment_id"]].deployment_id = d

\* C35: the probe is detached only from a network that has no container
\* with the deployment label attached, and a network is removed only when
\* no container at all is attached to it.
C35_DetachOnlyFromUnusedNetworks ==
    [][\A n \in Networks :
            /\ (network[n].probe /\ ~network'[n].probe) =>
                    network[n].containers \cap DeploymentContainers = {}
            /\ (network[n].exists /\ ~network'[n].exists) =>
                    network[n].containers = {}]_vars

\* Nothing of the engine is in progress or waiting for deployment d: its
\* start job is over, no cancel request or fail job is running and no job
\* of d is queued.
Settled(d) ==
    /\ startJob[d].pc \in {"done", "aborted"}
    /\ cancelReq[d] = Idle
    /\ failRun[d] = Idle
    /\ \A j \in queue : j.dep # d

\* C36: a deployment concluded failed or canceled, for which nothing of the
\* engine is in progress or queued any more and which no later
\* cleanup_inactive_containers would pick up, does not have its container
\* still running.
C36_ConcludedContainerNotLeftRunning ==
    \A d \in Rows :
        (/\ deployment[d].conclusion \in {"failed", "canceled"}
         /\ Settled(d)
         /\ d \notin inactive_deployments) =>
            ctr[d].state # "running"

\* C37: no step of fail_deployment, delete_container or
\* cleanup_inactive_containers stops or deletes the container of a deployment
\* that has succeeded and that an alias references as its current or its
\* previous deployment.
C37_ReferencedSucceededContainerKept ==
    [][\A d \in Referenced :
        (/\ deployment[d].conclusion = "succeeded"
         /\ \/ FailFinish(d)
            \/ DeleteContainer(d)
            \/ CleanupInactiveContainers) =>
            ctr'[d] = ctr[d]]_vars

\* A finalize or fail job of d as _check_status enqueues it (a fail job of
\* the monitor carries no reason).
Concluding(j, d) ==
    /\ j.dep = d
    /\ j.fn \in {"finalize_deployment", "fail_deployment"}
    /\ j.reason = Null

\* C38: while a finalize or fail job the monitor enqueued for a deployment
\* waits in the queue, a later _check_status of that deployment adds no job
\* to the queue.
C38_OneConcludingJobPerDeployment ==
    [][\A d \in Deps :
        (/\ \E j \in queue : Concluding(j, d)
         /\ CheckStatus(d)) =>
            queue' = queue]_vars

\* ------------------------------- update_traefik_config called concurrently
\* services/deployment.py lines 591-595: rollback swaps the alias of the
\* production environment and commits; update_traefik_config is called next.
RollbackCommit ==
    /\ writer["app"].pc = "idle"
    /\ ~RollbackRefused(alias[ProjectSlug])
    /\ alias' = [alias EXCEPT ![ProjectSlug] = swap_alias(@)]
    /\ writer' = [writer EXCEPT !["app"] = [pc |-> "called", include |-> {}]]
    /\ lastLog' = NoLog
    /\ UNCHANGED <<deployment, traefik, queue, startJob, abort, failRun,
                   finRun, cancelReq, ctr, expired, deployment_probe_state,
                   domain, probe_active, checkRun, emitted, stray, network>>

\* workers/tasks/deployment.py lines 403-412: after the aliases are
\* committed finalize_deployment calls update_traefik_config with the
\* deployment included.
FinalizeCall(d) ==
    /\ finRun[d].pc = "aliased"
    /\ writer["worker"].pc = "idle"
    /\ finRun' = [finRun EXCEPT ![d].pc = "routing"]
    /\ writer' = [writer EXCEPT !["worker"] = [pc |-> "called", include |-> {d}]]
    /\ lastLog' = NoLog
    /\ UNCHANGED <<deployment, alias, traefik, queue, startJob, abort,
                   failRun, cancelReq, ctr, expired, deployment_probe_state,
                   domain, probe_active, checkRun, emitted, stray, network>>

\* services/deployment.py lines 262-361 for a call whose include set its
\* caller has fixed: the queries see the rows committed at that moment.
WriterCalled(w) ==
    /\ writer[w].pc = "called"
    /\ LET include == writer[w].include
           aliases == RoutedAliases(alias, include)
       IN  writer' = [writer EXCEPT ![w] =
               [pc |-> "queried", include |-> include, aliases |-> aliases,
                domains |-> domain, config |-> routers(alias, aliases, domain),
                tmp |-> {}]]
    /\ lastLog' = NoLog
    /\ UNCHANGED <<deployment, alias, traefik, queue, startJob, abort,
                   failRun, finRun, cancelReq, ctr, expired,
                   deployment_probe_state, domain, probe_active, checkRun,
                   emitted, stray, network>>

\* services/deployment.py lines 381-383 when yaml.safe_dump completes.
WriterDumps(w) ==
    /\ WriterDump(w)
    /\ writer'[w].pc = "dumped"

\* workers/tasks/deployment.py lines 404-415: update_traefik_config has
\* returned to finalize_deployment.
FinalizeReturn(d) ==
    /\ finRun[d].pc = "routing"
    /\ writer["worker"].pc = "idle"
    /\ finRun' = [finRun EXCEPT ![d].pc = "routed"]
    /\ lastLog' = NoLog
    /\ UNCHANGED <<deployment, alias, traefik, queue, startJob, abort,
                   failRun, cancelReq, ctr, expired, deployment_probe_state,
                   domain, writer, probe_active, checkRun, emitted, stray,
                   network>>

\* The first deployment of the project has succeeded and is routed, the
\* second is deployed and its finalize job is queued, the third belongs to
\* another project.
RaceInit ==
    /\ deployment = [d \in Deps |->
            IF d = OtherDeployment
            THEN [Concluded(d, "succeeded") EXCEPT !.project_id = OtherProject]
            ELSE IF d = DeploymentIds[1] THEN Concluded(d, "succeeded")
            ELSE Concluded(d, Null)]
    /\ alias = [s \in Subdomains \cup {OtherSubdomain} |->
            [deployment_id |->
                IF s = OtherSubdomain THEN OtherDeployment ELSE DeploymentIds[1],
             previous_deployment_id |-> Null]]
    /\ domain \in SUBSET DomainRows
    /\ traefik = routers(alias, RoutedAliases(alias, {}), domain)
    /\ queue = {FinalizeJob(d) : d \in OwnDeployments \ {DeploymentIds[1]}}
    /\ startJob = [d \in Deps |-> [pc |-> "done", container |-> ContainerOf(d)]]
    /\ abort = {}
    /\ failRun = [d \in Deps |-> Idle]
    /\ finRun = [d \in Deps |-> Idle]
    /\ cancelReq = [d \in Deps |-> Idle]
    /\ ctr = [d \in Deps |-> [state |-> "running", exit_code |-> 0, listening |-> TRUE]]
    /\ expired = {}
    /\ deployment_probe_state = {}
    /\ lastLog = NoLog
    /\ writer = [w \in Writers |-> Idle]
    /\ probe_active = {}
    /\ checkRun = [d \in Deps |-> [k \in Checks |-> Idle]]
    /\ emitted = [d \in Deps |-> 0]
    /\ stray = {}
    /\ network = [n \in Networks |-> NoNetwork]

RaceNext ==
    \/ \E d \in Deps : FinalizeLoad(d)
    \/ \E d \in Deps : FinalizeAliases(d)
    \/ \E d \in Deps : FinalizeCall(d)
    \/ \E d \in Deps : FinalizeReturn(d)
    \/ \E d \in Deps : FinalizeConclude(d)
    \/ RollbackCommit
    \/ \E w \in Writers : WriterCalled(w)
    \/ \E w \in Writers : WriterRemove(w)
    \/ \E w \in Writers : WriterMkstemp(w)
    \/ \E w \in Writers : WriterDumps(w)
    \/ \E w \in Writers : WriterReplace(w)
    \/ \E w \in Writers : WriterCleanup(w)

RaceSpec == RaceInit /\ [][RaceNext]_vars

\* The routing file is the one some call of update_traefik_config would
\* compute from the rows as they are now.
Current(file) ==
    \E include \in Includes :
        file = routers(alias, RoutedAliases(alias, include), domain)

\* C39: with calls of update_traefik_config from a finalize job and from
\* rollbacks running concurrently, a call never replaces a routing file
\* that agrees with the committed aliases by one computed from aliases that
\* have been changed since.
C39_StaleCallNeverOverwrites ==
    [][\A w \in Writers :
        (WriterReplace(w) /\ Current(traefik)) => Current(traefik')]_vars

\* ------------------------------------ reconcile: the status Docker reports
\* services/reconcile.py lines 169-170: State.Status as the runtime reports
\* it; Docker knows these seven.
RuntimeStatuses ==
    {"created", "running", "paused", "restarting", "removing", "exited", "dead"}

\* The observed deployments are deployed; the runtime holds the container of
\* the first in any status a started container can have (it does not return
\* to created), the containers of the others running.
StatusInit ==
    /\ deployment = [d \in Deps |-> IF d \in Observed THEN Deployed(d) ELSE NoRow]
    /\ alias = [s \in Subdomains |-> NoAlias]
    /\ traefik = {}
    /\ queue = {}
    /\ startJob = [d \in Deps |-> [pc |-> "done", container |-> ContainerOf(d)]]
    /\ abort = {}
    /\ failRun = [d \in Deps |-> Idle]
    /\ finRun = [d \in Deps |-> Idle]
    /\ cancelReq = [d \in Deps |-> Idle]
    /\ \E s \in RuntimeStatuses \ {"created"} :
        ctr = [d \in Deps |->
                IF d = DeploymentIds[1]
                THEN [state |-> s, exit_code |-> 0, listening |-> FALSE]
                ELSE IF d \in Observed
                THEN [state |-> "running", exit_code |-> 0, listening |-> FALSE]
                ELSE NoContainer]
    /\ expired = {}
    /\ deployment_probe_state = {}
    /\ lastLog = NoLog
    /\ domain = {}
    /\ writer = [w \in Writers |-> Idle]
    /\ probe_active = {}
    /\ checkRun = [d \in Deps |-> [k \in Checks |-> Idle]]
    /\ emitted = [d \in Deps |-> 0]
    /\ stray = {}
    /\ network = [n \in Networks |-> NoNetwork]

StatusSpec == StatusInit /\ [][ReconcileNext]_vars

====
